---- MODULE Spec2Model ----
(***************************************************************************)
(* Model of the inspace contracts: the Space contract                      *)
(* (src/contracts/space/lib.rs, the "Instance" of the specification) with  *)
(* the part of the MotherSpace contract (src/contracts/motherspace/lib.rs, *)
(* the "Registry") that a Space calls back into.                           *)
(*                                                                         *)
(* Every message is a pure operator from the storage before the call to a  *)
(* result [ok, err, val, st]: st is the storage as the handler left it     *)
(* when it returned.  Message(pre, r) is the dispatch of an ink! message   *)
(* that returns a Result: an Err return reverts the call, so the storage   *)
(* after the call is r.st on Ok and pre on Err.                            *)
(*                                                                         *)
(* Option<T> is a sequence of length at most one: None is << >> and        *)
(* Some(x) is <<x>>.  A Mapping<K, V> whose keys are accounts is a         *)
(* function on Accounts to Option<V>; a Mapping keyed by a counter is a    *)
(* function whose DOMAIN is the set of keys written so far.                *)
(***************************************************************************)
EXTENDS Integers, Sequences, FiniteSets, TLC

VARIABLES
  now,                    \* Self::env().block_timestamp()
  owner,                  \* ownable::Data: the owner of the Space
  config,                 \* Lazy<SpaceConfig>
  members,                \* Mapping<AccountId, MemberInfo>
  index_to_member,        \* Mapping<u32, AccountId>
  members_nonce,          \* Lazy<u32>
  requests,               \* Mapping<RequestId, MembershipRequest>
  registrant_to_request,  \* Mapping<AccountId, RequestId>
  pending_requests,       \* Lazy<Vec<RequestId>>
  requests_nonce,         \* Lazy<u32>
  balance,                \* native balances of the accounts and of the Space
  members_to_spaces,      \* MotherSpace: Mapping<AccountId, Vec<SpaceId>>
  deployed_spaces,        \* MotherSpace: Mapping<SpaceId, AccountId>
  plugins,                \* Mapping<PluginId, AccountId>
  plugin_ids,             \* Lazy<Vec<PluginId>>
  disabled_plugin_ids,    \* Lazy<Vec<PluginId>>
  spaces,                 \* the storage of the Spaces deployed after the first
  index_to_space,         \* MotherSpace: Mapping<u32, SpaceId>
  spaces_count,           \* MotherSpace: Lazy<u32>
  ms_owner_id,            \* MotherSpace: owner_id: Lazy<AccountId>
  ids_to_plugin_launchers, \* MotherSpace: Mapping<PluginId, AccountId>
  plugin_launchers,       \* MotherSpace: Mapping<PluginIndex, PluginId>
  plugins_nonce,          \* MotherSpace: Lazy<Nonce>
  launches_count,         \* launches_count: Lazy<u32> of every plugin launcher
  plugin_contracts,       \* the plugin contracts instantiated so far
  space_codes,            \* MotherSpace: Mapping<Version, CodeHash>
  space_codes_nonce,      \* MotherSpace: Lazy<Nonce>
  plugin_codes,           \* plugin_codes: Mapping<Version, Hash> of every launcher
  plugin_codes_nonce,     \* plugin_codes_nonce: Lazy<Nonce> of every launcher
  flipper                 \* the storage of a Flipper plugin of the first Space

\* the plugins of the Space, the other Spaces, the MotherSpace's registry of
\* Spaces and launchers, the launchers and the plugin contracts
registry == <<plugins, plugin_ids, disabled_plugin_ids, spaces, index_to_space,
              spaces_count, ms_owner_id, ids_to_plugin_launchers,
              plugin_launchers, plugins_nonce, launches_count, plugin_contracts,
              space_codes, space_codes_nonce, plugin_codes, plugin_codes_nonce>>

vars == <<now, owner, config, members, index_to_member, members_nonce, requests,
          registrant_to_request, pending_requests, requests_nonce, balance,
          members_to_spaces, deployed_spaces, registry, flipper>>

----------------------------------------------------------------------------
(* Bounds of the model *)

\* the clock runs over MaxDays days
MaxDays == 1
\* every account starts with InitBalance units of the native currency
InitBalance == 1
\* at most MaxRequests membership requests are ever registered
MaxRequests == 2
\* a batch of approvals holds at most MaxBatch entries
MaxBatch == 2
\* at most MaxCancels requests are cancelled at the cap of the pending list
MaxCancels == 2
\* at most MaxSpaces Spaces are deployed after the first
MaxSpaces == 1
\* the launchers launch at most MaxLaunches plugins together
MaxLaunches == 2
\* a list of plugins to install holds at most MaxPlugins ids
MaxPlugins == 2
\* at most MaxDeployed Spaces are deployed after the first to fill the pages
MaxDeployed == 51
\* every code log is upgraded at most MaxUpgrades times
MaxUpgrades == 2

(* Program constants *)

SECS_PER_DAY == 86400
MAX_PENDING_REQUESTS == 500

ALICE == "alice"
Accounts == {ALICE, "bob", "carol"}
\* the account of the MotherSpace, its owner and the plugin launchers
MOTHERSPACE == "motherspace"
MS_OWNER == "carol"
\* Hash: the code the MotherSpace and the launchers are constructed with, and
\* the codes of the upgrades
CODE == "code"
Hashes == {CODE, "code_b"}
Launchers == {"flipper_launcher", "posts_launcher"}
\* the account id of the deployed Space
SPACE == "space"

None == << >>
Some(x) == <<x>>
IsSome(o) == o # << >>

\* block timestamps: around the start of every day, never 0 on a running chain
Times == {1} \cup {d * SECS_PER_DAY + 1 : d \in 1..MaxDays}
\* the durations (in days) and the prices a SpaceConfig is given
Durations == {0, 1}
Prices == {1}
Values == 0..InitBalance

\* Option<u64>: the ttl of grant_membership(who, ttl)
Ttls == {None} \cup {Some(d * SECS_PER_DAY) : d \in Durations}
\* a String is the sequence of the UTF-8 widths (in bytes) of its characters
Str(chars, width) == [i \in 1..chars |-> width]
\* Option<String>: the names update_member_info is called with: "al", "alice",
\* two 2-byte characters, 31 ASCII characters, sixteen 2-byte characters
NameArgs == {None, Some(Str(2, 1)), Some(Str(5, 1)), Some(Str(2, 2)),
             Some(Str(31, 1)), Some(Str(16, 2))}

Free == [kind |-> "Free", price |-> 0, duration |-> 0]
OneTimePaid(p) == [kind |-> "OneTimePaid", price |-> p, duration |-> 0]
Subscription(p, d) == [kind |-> "Subscription", price |-> p, duration |-> d]
Pricings == {Free} \cup {OneTimePaid(p) : p \in Prices}
              \cup {Subscription(p, d) : p \in Prices, d \in Durations}
RegistrationTypes == {"PayToJoin", "RequestToJoin", "InviteOnly"}
\* every SpaceConfig a caller can pass
SpaceConfigs == [registration : RegistrationTypes, pricing : Pricings]

\* the storage of the Space, the balances and the MotherSpace's ledgers as one value
St == [now |-> now, owner |-> owner, config |-> config, members |-> members,
       index_to_member |-> index_to_member, members_nonce |-> members_nonce,
       requests |-> requests, registrant_to_request |-> registrant_to_request,
       pending_requests |-> pending_requests, requests_nonce |-> requests_nonce,
       balance |-> balance, members_to_spaces |-> members_to_spaces,
       deployed_spaces |-> deployed_spaces,
       plugins |-> plugins, plugin_ids |-> plugin_ids,
       disabled_plugin_ids |-> disabled_plugin_ids, spaces |-> spaces,
       index_to_space |-> index_to_space, spaces_count |-> spaces_count,
       ms_owner_id |-> ms_owner_id,
       ids_to_plugin_launchers |-> ids_to_plugin_launchers,
       plugin_launchers |-> plugin_launchers, plugins_nonce |-> plugins_nonce,
       launches_count |-> launches_count, plugin_contracts |-> plugin_contracts,
       space_codes |-> space_codes, space_codes_nonce |-> space_codes_nonce,
       plugin_codes |-> plugin_codes, plugin_codes_nonce |-> plugin_codes_nonce]

\* the storage at another block timestamp, nothing else changed
AtTime(st, t) == [st EXCEPT !.now = t]

Ok(v, st) == [ok |-> TRUE, err |-> "", val |-> v, st |-> st]
Err(e, st) == [ok |-> FALSE, err |-> e, val |-> 0, st |-> st]
\* an error value with a payload, as CannotRefundPayment(AccountId, RequestId)
ErrOf(e, v, st) == [ok |-> FALSE, err |-> e, val |-> v, st |-> st]

\* a plausible bug: the writes of a message that returned Err are kept
MessageKeepsWrites(pre, r) == r.st

\* the storage after a message: ink! reverts a message that returns Err
Message(pre, r) == IF r.ok THEN r.st ELSE pre

Contains(seq, x) == \E i \in 1..Len(seq) : seq[i] = x
\* Vec::retain
Retain(seq, Keep(_)) == SelectSeq(seq, Keep)
\* Mapping::get and Mapping::insert on a Mapping keyed by a counter
Get(map, k) == IF k \in DOMAIN map THEN Some(map[k]) ELSE None
Insert(map, k, v) == (k :> v) @@ map

----------------------------------------------------------------------------
(* MotherSpace: the reverse index the Space notifies *)

is_deployed_space_impl(st, space_id) == space_id \in DOMAIN st.deployed_spaces

\* a plausible bug: the Space is pushed without the contains test
add_space_member_impl_push(st, space_id, member_id) ==
  [st EXCEPT !.members_to_spaces[member_id] = Append(@, space_id)]

add_space_member_impl(st, space_id, member_id) ==
  LET owner_spaces == st.members_to_spaces[member_id]
  IN IF ~Contains(owner_spaces, space_id)
     THEN [st EXCEPT !.members_to_spaces[member_id] = Append(owner_spaces, space_id)]
     ELSE st

remove_space_member_impl(st, space_id, member_id) ==
  LET owner_spaces == st.members_to_spaces[member_id]
      Other(x) == x # space_id
  IN IF Contains(owner_spaces, space_id)
     THEN [st EXCEPT !.members_to_spaces[member_id] = SelectSeq(owner_spaces, Other)]
     ELSE st

\* a plausible bug: any caller may add its link
add_space_member_open(st, space_id, who) ==
  Ok(0, add_space_member_impl(st, space_id, who))

\* add_space_member(who), called by the contract space_id
add_space_member(st, space_id, who) ==
  IF ~is_deployed_space_impl(st, space_id)
  THEN Err("Custom", st)
  ELSE Ok(0, add_space_member_impl(st, space_id, who))

\* remove_space_member(who), called by the contract space_id
remove_space_member(st, space_id, who) ==
  IF ~is_deployed_space_impl(st, space_id)
  THEN Err("Custom", st)
  ELSE Ok(0, remove_space_member_impl(st, space_id, who))

----------------------------------------------------------------------------
(* Pagination *)

\* u32::saturating_add; the arguments of the model stay far below u32::MAX,
\* where the sum saturates
saturating_add(a, b) == a + b
\* u32::min
min(a, b) == IF a <= b THEN a ELSE b
\* the Range from..end of indices, as a sequence (empty when from >= end)
Range(from, end) == [i \in 1..(end - from) |-> from + i - 1]
\* the values of the mapping at the indices of the sequence that it holds
Collect(map, indices) ==
  LET held == SelectSeq(indices, LAMBDA index : index \in DOMAIN map)
  IN [i \in 1..Len(held) |-> map[held[i]]]

\* a plausible bug: the page ends at the number of Spaces, whatever is asked
list_spaces_whole(st, from, per_page_) ==
  LET last_position == saturating_add(from, per_page_)
      per_page == min(per_page_, 50)
      current_spaces_count == st.spaces_count
  IN [items |-> Collect(st.index_to_space, Range(from, current_spaces_count)),
      from |-> from,
      per_page |-> per_page,
      has_next_page |-> last_position < current_spaces_count,
      total |-> current_spaces_count]

\* MotherSpace::list_spaces(from, per_page) -> SpacesPage
list_spaces(st, from, per_page_) ==
  LET last_position == saturating_add(from, per_page_)
      per_page == min(per_page_, 50)
      current_spaces_count == st.spaces_count
  IN [items |-> Collect(st.index_to_space,
                        Range(from, min(last_position, current_spaces_count))),
      from |-> from,
      per_page |-> per_page,
      has_next_page |-> last_position < current_spaces_count,
      total |-> current_spaces_count]

\* Space::list_members(from, per_page) -> MembersPage
list_members(st, from, per_page_) ==
  LET last_position == saturating_add(from, per_page_)
      per_page == min(per_page_, 50)
      current_member_nonce == st.members_nonce
      accounts == Collect(st.index_to_member,
                          Range(from, min(last_position, current_member_nonce)))
      indices == SelectSeq(Range(from, min(last_position, current_member_nonce)),
                           LAMBDA index : index \in DOMAIN st.index_to_member)
      rows == SelectSeq([i \in 1..Len(accounts) |->
                           [index |-> indices[i], account_id |-> accounts[i],
                            info |-> st.members[accounts[i]]]],
                        LAMBDA row : IsSome(row.info))
  IN [items |-> [i \in 1..Len(rows) |->
                   [rows[i] EXCEPT !.info = rows[i].info[1]]],
      from |-> from,
      per_page |-> per_page,
      has_next_page |-> last_position < current_member_nonce,
      total |-> current_member_nonce]

----------------------------------------------------------------------------
(* Space: configuration *)

default_config == [registration |-> "PayToJoin", pricing |-> Free]

\* maybe_config is an Option<SpaceConfig>
\* a plausible bug: the configuration is stored as given
normalize_config_asis(maybe_config) == IF IsSome(maybe_config) THEN maybe_config[1] ELSE default_config

normalize_config(maybe_config) ==
  IF IsSome(maybe_config)
  THEN LET one == maybe_config[1]
       IN IF one.registration = "InviteOnly"
          THEN [one EXCEPT !.pricing = Free]
          ELSE one
  ELSE default_config

\* a plausible bug: the duration taken in hours
ttl_hours(cfg) ==
  IF cfg.pricing.kind = "Subscription"
  THEN Some(3600 * cfg.pricing.duration)
  ELSE None

\* a plausible bug: every paid membership expires after its duration
ttl_priced(cfg) ==
  IF cfg.pricing.kind # "Free"
  THEN Some(SECS_PER_DAY * cfg.pricing.duration)
  ELSE None

\* SpaceConfig::ttl: the duration is in days; u64 saturating_mul cannot
\* saturate on a u32 duration
ttl(cfg) ==
  IF cfg.pricing.kind = "Subscription"
  THEN Some(SECS_PER_DAY * cfg.pricing.duration)
  ELSE None

\* the payment rule of pay_to_join and register_membership
valid_payment(cfg, paid_balance) ==
  CASE cfg.pricing.kind = "Free" -> TRUE
    [] cfg.pricing.kind = "OneTimePaid" -> paid_balance >= cfg.pricing.price
    [] cfg.pricing.kind = "Subscription" -> paid_balance >= cfg.pricing.price

----------------------------------------------------------------------------
(* Space: membership *)

\* a plausible bug: the comparison of the comment on MemberStatus::Active
\* (nextRenewalAt >= now)
member_status_ge(st, who) ==
  LET maybe_member == st.members[who]
  IN IF IsSome(maybe_member)
     THEN LET info == maybe_member[1]
          IN IF IsSome(info.next_renewal_at)
             THEN LET renewal_at == info.next_renewal_at[1]
                  IN IF renewal_at >= st.now THEN "Active"
                     ELSE IF renewal_at > 0 THEN "Inactive"
                     ELSE "Left"
             ELSE "Active"
     ELSE "None"

member_status(st, who) ==
  LET maybe_member == st.members[who]
  IN IF IsSome(maybe_member)
     THEN LET info == maybe_member[1]
          IN IF IsSome(info.next_renewal_at)
             THEN LET renewal_at == info.next_renewal_at[1]
                  IN IF renewal_at > st.now THEN "Active"
                     ELSE IF renewal_at > 0 THEN "Inactive"
                     ELSE "Left"
             ELSE "Active"
     ELSE "None"

\* a plausible bug: an expired membership passes the check
check_active_member_expired(st, id) ==
  LET maybe_member == st.members[id]
  IN IF IsSome(maybe_member)
     THEN LET info == maybe_member[1]
          IN IF IsSome(info.next_renewal_at)
             THEN info.next_renewal_at[1] > 0
             ELSE TRUE
     ELSE FALSE

check_active_member(st, id) ==
  LET maybe_member == st.members[id]
  IN IF IsSome(maybe_member)
     THEN LET info == maybe_member[1]
          IN IF IsSome(info.next_renewal_at)
             THEN info.next_renewal_at[1] > st.now
             ELSE TRUE
     ELSE FALSE

\* a plausible bug: an expired membership does not count as a membership
is_member_active_only(st, who) ==
  member_status(st, who) = "Active"

\* a plausible bug: an account that left still counts as a member
is_member_ever(st, who) ==
  member_status(st, who) # "None"

is_member(st, who) ==
  LET status == member_status(st, who)
  IN status = "Active" \/ status = "Inactive"

\* the result of a cross-contract call whose Result is dropped (let _ = ...):
\* a callee that returned Err reverted its own writes
Ignored(st, r) == IF r.ok THEN r.st ELSE st

\* a plausible bug: a grant to an Inactive or Left account makes a new row and
\* a new index slot as for an account that never joined
do_grant_membership_fresh(st, who, ttl_, register_space_member) ==
  LET status == member_status(st, who)
      current_timestamp == st.now
      next_renewal_at ==
        IF IsSome(ttl_) THEN Some(current_timestamp + ttl_[1]) ELSE None
  IN IF status = "Active"
     THEN Err("MemberExisted", st)
     ELSE LET st1 ==
                IF status # "Active"
                THEN LET new_member == [name |-> None,
                                        next_renewal_at |-> next_renewal_at,
                                        joined_at |-> current_timestamp]
                         current_members_nonce == st.members_nonce
                     IN [st EXCEPT
                           !.members[who] = Some(new_member),
                           !.index_to_member =
                              Insert(@, current_members_nonce, who),
                           !.members_nonce = current_members_nonce + 1]
                ELSE LET member_info == st.members[who][1]
                     IN [st EXCEPT
                           !.members[who] =
                              Some([member_info EXCEPT
                                      !.next_renewal_at = next_renewal_at])]
              st2 == IF register_space_member
                     THEN Ignored(st1, add_space_member(st1, SPACE, who))
                     ELSE st1
          IN Ok(0, st2)

\* a u64 or u32 checked_add cannot overflow within the bounds of the model
\* a plausible bug: a grant to an Active member is not refused and renews it
do_grant_membership_renew(st, who, ttl_, register_space_member) ==
  LET next_renewal_at == IF IsSome(ttl_) THEN Some(st.now + ttl_[1]) ELSE None
      new_member == [name |-> None, next_renewal_at |-> next_renewal_at,
                     joined_at |-> st.now]
      st1 == IF member_status(st, who) = "None"
             THEN [st EXCEPT !.members[who] = Some(new_member),
                             !.index_to_member = Insert(@, st.members_nonce, who),
                             !.members_nonce = @ + 1]
             ELSE [st EXCEPT !.members[who] =
                               Some([@[1] EXCEPT !.next_renewal_at = next_renewal_at])]
  IN Ok(0, IF register_space_member
           THEN Ignored(st1, add_space_member(st1, SPACE, who))
           ELSE st1)

do_grant_membership(st, who, ttl_, register_space_member) ==
  LET status == member_status(st, who)
      current_timestamp == st.now
      next_renewal_at ==
        IF IsSome(ttl_) THEN Some(current_timestamp + ttl_[1]) ELSE None
  IN IF status = "Active"
     THEN Err("MemberExisted", st)
     ELSE LET st1 ==
                IF status = "None"
                THEN LET new_member == [name |-> None,
                                        next_renewal_at |-> next_renewal_at,
                                        joined_at |-> current_timestamp]
                         current_members_nonce == st.members_nonce
                     IN [st EXCEPT
                           !.members[who] = Some(new_member),
                           !.index_to_member =
                              Insert(@, current_members_nonce, who),
                           !.members_nonce = current_members_nonce + 1]
                ELSE LET member_info == st.members[who][1]
                     IN [st EXCEPT
                           !.members[who] =
                              Some([member_info EXCEPT
                                      !.next_renewal_at = next_renewal_at])]
              st2 == IF register_space_member
                     THEN Ignored(st1, add_space_member(st1, SPACE, who))
                     ELSE st1
          IN Ok(0, st2)

\* #[modifiers(only_owner)]
only_owner(st, caller) == caller = st.owner

\* a plausible bug: the only_owner modifier is missing
grant_membership_open(st, caller, who, ttl_) ==
  do_grant_membership(st, who, ttl_, TRUE)

grant_membership(st, caller, who, ttl_) ==
  IF ~only_owner(st, caller)
  THEN Err("OwnableError", st)
  ELSE do_grant_membership(st, who, ttl_, TRUE)

\* #[ink(message, payable)]: the transferred value is the Space's before the
\* handler runs (and is the caller's again when the message reverts)
Payable(st, caller, value) ==
  [st EXCEPT !.balance[caller] = @ - value, !.balance[SPACE] = @ + value]

\* self.env().transfer(to, amount): fails when the Space cannot pay the amount
\* or when the destination cannot take it (blocked: the accounts that cannot
\* take a transfer during this call)
Transfer(st, to, amount, blocked) ==
  IF to \in blocked \/ st.balance[SPACE] < amount
  THEN Err("TransferFailed", st)
  ELSE Ok(0, [st EXCEPT !.balance[SPACE] = @ - amount, !.balance[to] = @ + amount])

\* who is an Option<AccountId>
\* a plausible bug: pay_to_join does not look at the registration mode
pay_to_join_any_mode(st0, caller, who, value) ==
  LET st == Payable(st0, caller, value)
      registrant == IF IsSome(who) THEN who[1] ELSE caller
  IN IF is_member(st, registrant) THEN Err("MemberExisted", st)
     ELSE IF ~valid_payment(st.config, value) THEN Err("InsufficientPayment", st)
     ELSE do_grant_membership(st, registrant, ttl(st.config), TRUE)

pay_to_join(st0, caller, who, value) ==
  LET st == Payable(st0, caller, value)
      cfg == st.config
      registrant == IF IsSome(who) THEN who[1] ELSE caller
      paid_balance == value
  IN IF cfg.registration # "PayToJoin" THEN Err("Custom", st)
     ELSE IF is_member(st, registrant) THEN Err("MemberExisted", st)
     ELSE IF ~valid_payment(cfg, paid_balance) THEN Err("InsufficientPayment", st)
     ELSE do_grant_membership(st, registrant, ttl(cfg), TRUE)

\* a plausible bug: the check for a pending request of the registrant is missing
register_membership_unchecked(st0, caller, who, value) ==
  LET st == Payable(st0, caller, value)
      cfg == st.config
      registrant == IF IsSome(who) THEN who[1] ELSE caller
      next_request_id == st.requests_nonce + 1
      paid_balance == value
  IN IF cfg.registration # "RequestToJoin" THEN Err("Custom", st)
     ELSE IF is_member(st, registrant) THEN Err("MemberExisted", st)
     ELSE IF ~(Len(st.pending_requests) <= MAX_PENDING_REQUESTS)
       THEN Err("Custom", st)
     ELSE IF ~valid_payment(cfg, paid_balance) THEN Err("InsufficientPayment", st)
     ELSE Ok(0, [st EXCEPT
                   !.requests_nonce = next_request_id,
                   !.pending_requests = Append(st.pending_requests, next_request_id),
                   !.requests = Insert(@, next_request_id,
                                       [who |-> registrant,
                                        paid |-> paid_balance,
                                        requested_at |-> st.now,
                                        approved |-> None]),
                   !.registrant_to_request[registrant] = Some(next_request_id)])

\* a plausible bug: the cap is checked with < (at most 500 pending requests)
register_membership_capped(st0, caller, who, value) ==
  LET st == Payable(st0, caller, value)
      cfg == st.config
      registrant == IF IsSome(who) THEN who[1] ELSE caller
      pending == st.pending_requests
      maybe_request_id == st.registrant_to_request[registrant]
      next_request_id == st.requests_nonce + 1
      paid_balance == value
  IN IF cfg.registration # "RequestToJoin" THEN Err("Custom", st)
     ELSE IF is_member(st, registrant) THEN Err("MemberExisted", st)
     ELSE IF IsSome(maybe_request_id) /\ Contains(pending, maybe_request_id[1])
       THEN Err("Custom", st)
     ELSE IF ~(Len(pending) < MAX_PENDING_REQUESTS) THEN Err("Custom", st)
     ELSE IF ~valid_payment(cfg, paid_balance) THEN Err("InsufficientPayment", st)
     ELSE Ok(0, [st EXCEPT
                   !.requests_nonce = next_request_id,
                   !.pending_requests = Append(pending, next_request_id),
                   !.requests = Insert(@, next_request_id,
                                       [who |-> registrant,
                                        paid |-> paid_balance,
                                        requested_at |-> st.now,
                                        approved |-> None]),
                   !.registrant_to_request[registrant] = Some(next_request_id)])

\* a plausible bug: any earlier request of the registrant blocks a new one
register_membership_once(st0, caller, who, value) ==
  LET st == Payable(st0, caller, value)
      registrant == IF IsSome(who) THEN who[1] ELSE caller
      next_request_id == st.requests_nonce + 1
  IN IF st.config.registration # "RequestToJoin" THEN Err("Custom", st)
     ELSE IF is_member(st, registrant) THEN Err("MemberExisted", st)
     ELSE IF IsSome(st.registrant_to_request[registrant]) THEN Err("Custom", st)
     ELSE IF ~(Len(st.pending_requests) <= MAX_PENDING_REQUESTS) THEN Err("Custom", st)
     ELSE IF ~valid_payment(st.config, value) THEN Err("InsufficientPayment", st)
     ELSE Ok(0, [st EXCEPT
                   !.requests_nonce = next_request_id,
                   !.pending_requests = Append(@, next_request_id),
                   !.requests = Insert(@, next_request_id,
                                       [who |-> registrant, paid |-> value,
                                        requested_at |-> st.now,
                                        approved |-> None]),
                   !.registrant_to_request[registrant] = Some(next_request_id)])

register_membership(st0, caller, who, value) ==
  LET st == Payable(st0, caller, value)
      cfg == st.config
      registrant == IF IsSome(who) THEN who[1] ELSE caller
      pending == st.pending_requests
      maybe_request_id == st.registrant_to_request[registrant]
      next_request_id == st.requests_nonce + 1
      paid_balance == value
  IN IF cfg.registration # "RequestToJoin" THEN Err("Custom", st)
     ELSE IF is_member(st, registrant) THEN Err("MemberExisted", st)
     ELSE IF IsSome(maybe_request_id) /\ Contains(pending, maybe_request_id[1])
       THEN Err("Custom", st)
     ELSE IF ~(Len(pending) <= MAX_PENDING_REQUESTS) THEN Err("Custom", st)
     ELSE IF ~valid_payment(cfg, paid_balance) THEN Err("InsufficientPayment", st)
     ELSE Ok(0, [st EXCEPT
                   !.requests_nonce = next_request_id,
                   !.pending_requests = Append(pending, next_request_id),
                   !.requests = Insert(@, next_request_id,
                                       [who |-> registrant,
                                        paid |-> paid_balance,
                                        requested_at |-> st.now,
                                        approved |-> None]),
                   !.registrant_to_request[registrant] = Some(next_request_id)])

\* Option<(RequestId, MembershipRequest)>
get_membership_request(st, who) ==
  LET maybe_request_id == st.registrant_to_request[who]
  IN IF ~IsSome(maybe_request_id) THEN None
     ELSE LET request_id == maybe_request_id[1]
          IN IF Contains(st.pending_requests, request_id)
             THEN Some(<<request_id, st.requests[request_id]>>)
             ELSE None

\* a plausible bug: a failed refund is ignored and the request removed
cancel_request_unpaid(st, caller, blocked) ==
  LET maybe_request == get_membership_request(st, caller)
  IN IF ~IsSome(maybe_request) THEN Err("Custom", st)
     ELSE LET request_id == maybe_request[1][1]
              request == maybe_request[1][2]
              paid == Transfer(st, caller, request.paid, blocked)
              Other(x) == x # request_id
          IN Ok(0, [paid.st EXCEPT
                      !.pending_requests = SelectSeq(@, Other)])

\* a plausible bug: the refund is the price of the Space and not what was paid
cancel_request_price(st, caller, blocked) ==
  LET maybe_request == get_membership_request(st, caller)
  IN IF ~IsSome(maybe_request) THEN Err("Custom", st)
     ELSE LET request_id == maybe_request[1][1]
              request == maybe_request[1][2]
              paid == Transfer(st, caller, st.config.pricing.price, blocked)
              Other(x) == x # request_id
          IN IF ~paid.ok
             THEN ErrOf("CannotRefundPayment", <<request.who, request_id>>, st)
             ELSE Ok(0, [paid.st EXCEPT
                           !.pending_requests = SelectSeq(@, Other)])

cancel_request(st, caller, blocked) ==
  LET maybe_request == get_membership_request(st, caller)
  IN IF ~IsSome(maybe_request) THEN Err("Custom", st)
     ELSE LET request_id == maybe_request[1][1]
              request == maybe_request[1][2]
              paid == Transfer(st, caller, request.paid, blocked)
              Other(x) == x # request_id
          IN IF ~paid.ok
             THEN ErrOf("CannotRefundPayment", <<request.who, request_id>>, st)
             ELSE Ok(0, [paid.st EXCEPT
                           !.pending_requests = SelectSeq(@, Other)])

\* a plausible bug: a rejection whose refund fails is skipped, the batch goes on
RECURSIVE approvals_loop_skip(_, _, _, _, _, _)
approvals_loop_skip(st, approvals, i, submitted, cnt, blocked) ==
  IF i > Len(approvals)
  THEN Ok([cnt EXCEPT !.submitted = submitted], st)
  ELSE LET who == approvals[i][1]
           approved == approvals[i][2]
           maybe_request == get_membership_request(st, who)
       IN IF ~IsSome(maybe_request)
          THEN approvals_loop_skip(st, approvals, i + 1, submitted,
                                   [cnt EXCEPT !.not_found = @ + 1], blocked)
          ELSE LET request_id == maybe_request[1][1]
                   request == maybe_request[1][2]
                   submitted1 == Append(submitted, request_id)
                   decided == [request EXCEPT !.approved = Some(approved)]
               IN IF approved
                  THEN LET granted == do_grant_membership(st, request.who,
                                                          ttl(st.config), TRUE)
                       IN IF ~granted.ok
                          THEN granted
                          ELSE approvals_loop_skip(
                                 [granted.st EXCEPT
                                    !.requests = Insert(@, request_id, decided)],
                                 approvals, i + 1, submitted1,
                                 [cnt EXCEPT !.approved = @ + 1], blocked)
                  ELSE LET paid == Transfer(st, request.who, request.paid, blocked)
                       IN IF paid.ok
                          THEN approvals_loop_skip(
                                 [paid.st EXCEPT
                                    !.requests = Insert(@, request_id, decided)],
                                 approvals, i + 1, submitted1,
                                 [cnt EXCEPT !.rejected = @ + 1], blocked)
                          ELSE approvals_loop_skip(st, approvals, i + 1, submitted,
                                 [cnt EXCEPT !.not_found = @ + 1], blocked)

\* the loop of submit_request_approvals from entry i on: st is the storage so
\* far, submitted the submitted_request_ids, cnt the three counters
RECURSIVE approvals_loop(_, _, _, _, _, _)
approvals_loop(st, approvals, i, submitted, cnt, blocked) ==
  IF i > Len(approvals)
  THEN Ok([cnt EXCEPT !.submitted = submitted], st)
  ELSE LET who == approvals[i][1]
           approved == approvals[i][2]
           maybe_request == get_membership_request(st, who)
       IN IF ~IsSome(maybe_request)
          THEN approvals_loop(st, approvals, i + 1, submitted,
                              [cnt EXCEPT !.not_found = @ + 1], blocked)
          ELSE LET request_id == maybe_request[1][1]
                   request == maybe_request[1][2]
                   submitted1 == Append(submitted, request_id)
                   decided == [request EXCEPT !.approved = Some(approved)]
               IN IF approved
                  THEN LET granted == do_grant_membership(st, request.who,
                                                          ttl(st.config), TRUE)
                       IN IF ~granted.ok
                          THEN granted
                          ELSE approvals_loop(
                                 [granted.st EXCEPT
                                    !.requests = Insert(@, request_id, decided)],
                                 approvals, i + 1, submitted1,
                                 [cnt EXCEPT !.approved = @ + 1], blocked)
                  ELSE LET paid == Transfer(st, request.who, request.paid, blocked)
                       IN IF paid.ok
                          THEN approvals_loop(
                                 [paid.st EXCEPT
                                    !.requests = Insert(@, request_id, decided)],
                                 approvals, i + 1, submitted1,
                                 [cnt EXCEPT !.rejected = @ + 1], blocked)
                          ELSE ErrOf("CannotRefundPayment",
                                     <<request.who, request_id>>, st)

\* approvals is a Vec<(AccountId, bool)>; the value of an Ok result is the
\* ApprovalSubmissionResult (with the submitted_request_ids of the call)
submit_request_approvals(st, caller, approvals, blocked) ==
  IF ~only_owner(st, caller)
  THEN Err("OwnableError", st)
  ELSE LET looped == approvals_loop(st, approvals, 1, << >>,
                       [approved |-> 0, rejected |-> 0, not_found |-> 0,
                        submitted |-> << >>], blocked)
       IN IF ~looped.ok
          THEN looped
          ELSE LET submitted_request_ids == looped.val.submitted
                   NotSubmitted(x) == ~Contains(submitted_request_ids, x)
               IN Ok(looped.val,
                     [looped.st EXCEPT
                        !.pending_requests = SelectSeq(@, NotSubmitted)])

\* a plausible bug: the owner is not kept from leaving
leave_any(st, who) ==
  IF member_status(st, who) # "Active" THEN Err("NotActiveMember", st)
  ELSE LET member_info == st.members[who][1]
           st1 == [st EXCEPT
                     !.members[who] =
                        Some([member_info EXCEPT !.next_renewal_at = Some(0)])]
       IN Ok(0, Ignored(st1, remove_space_member(st1, SPACE, who)))

\* a plausible bug: leave does not tell the MotherSpace
leave_unlinked(st, who) ==
  IF who = st.owner THEN Err("Custom", st)
  ELSE IF member_status(st, who) # "Active" THEN Err("NotActiveMember", st)
  ELSE Ok(0, [st EXCEPT !.members[who] =
                          Some([@[1] EXCEPT !.next_renewal_at = Some(0)])])

leave(st, who) ==
  IF who = st.owner THEN Err("Custom", st)
  ELSE IF member_status(st, who) # "Active" THEN Err("NotActiveMember", st)
  ELSE LET member_info == st.members[who][1]
           st1 == [st EXCEPT
                     !.members[who] =
                        Some([member_info EXCEPT !.next_renewal_at = Some(0)])]
       IN Ok(0, Ignored(st1, remove_space_member(st1, SPACE, who)))

\* String::len: the length of a String in bytes
RECURSIVE len(_)
len(s) == IF s = << >> THEN 0 ELSE Head(s) + len(Tail(s))

\* name is an Option<String>
update_member_info(st, caller, name) ==
  IF ~check_active_member(st, caller) THEN Err("NotActiveMember", st)
  ELSE IF IsSome(name) /\ ~(len(name[1]) >= 3) THEN Err("Custom", st)
  ELSE IF IsSome(name) /\ ~(len(name[1]) <= 30) THEN Err("Custom", st)
  ELSE LET member_info == st.members[caller][1]
       IN Ok(0, [st EXCEPT
                   !.members[caller] = Some([member_info EXCEPT !.name = name])])

update_config(st, caller, cfg) ==
  IF ~only_owner(st, caller)
  THEN Err("OwnableError", st)
  ELSE Ok(0, [st EXCEPT !.config = normalize_config(Some(cfg))])

----------------------------------------------------------------------------
(* Space: plugins.  A Space's storage is the record of its SpaceFields; the
   storage of the Space SPACE is the variables of the same names, that of a
   Space deployed later is spaces[space_id]. *)

SpaceFields == {"owner", "config", "members", "index_to_member", "members_nonce",
                "requests", "registrant_to_request", "pending_requests",
                "requests_nonce", "plugins", "plugin_ids", "disabled_plugin_ids"}

Storage(st) == [f \in SpaceFields |-> st[f]]

GetSpace(st, space_id) ==
  IF space_id = SPACE THEN Storage(st) ELSE st.spaces[space_id]

PutSpace(st, space_id, sp) ==
  IF space_id = SPACE
  THEN [f \in DOMAIN st |-> IF f \in SpaceFields THEN sp[f] ELSE st[f]]
  ELSE [st EXCEPT !.spaces = Insert(@, space_id, sp)]

\* the for loop of attach_plugins from pair i on
RECURSIVE attach_loop(_, _, _)
attach_loop(sp, plugins_, i) ==
  IF i > Len(plugins_) THEN sp
  ELSE attach_loop([sp EXCEPT
                      !.plugins = Insert(@, plugins_[i][1], plugins_[i][2]),
                      !.plugin_ids = Append(@, plugins_[i][1])],
                   plugins_, i + 1)

\* a plausible bug: the pairs are attached up to the first kind already there
RECURSIVE attach_loop_partial(_, _, _)
attach_loop_partial(sp, plugins_, i) ==
  IF i > Len(plugins_) THEN Ok(0, sp)
  ELSE IF plugins_[i][1] \in DOMAIN sp.plugins THEN Ok(0, sp)
  ELSE attach_loop_partial([sp EXCEPT
                              !.plugins = Insert(@, plugins_[i][1], plugins_[i][2]),
                              !.plugin_ids = Append(@, plugins_[i][1])],
                           plugins_, i + 1)

attach_plugins_partial(sp, caller, plugins_) ==
  IF MOTHERSPACE # caller THEN Err("Custom", sp)
  ELSE attach_loop_partial(sp, plugins_, 1)

\* attach_plugins on the storage sp of a Space the MotherSpace deployed (its
\* motherspace_id is MOTHERSPACE); plugins_ is a Vec<(PluginId, AccountId)>
attach_plugins(sp, caller, plugins_) ==
  IF MOTHERSPACE # caller THEN Err("Custom", sp)
  ELSE IF \E i \in 1..Len(plugins_) : plugins_[i][1] \in DOMAIN sp.plugins
    THEN Err("Custom", sp)
  ELSE Ok(0, attach_loop(sp, plugins_, 1))

\* a plausible bug: disable_plugin pushes the kind without the contains test
disable_plugin_push(sp, caller, plugin_id) ==
  IF ~only_owner(sp, caller) THEN Err("OwnableError", sp)
  ELSE IF ~Contains(sp.plugin_ids, plugin_id) THEN Err("PluginNotFound", sp)
  ELSE Ok(0, [sp EXCEPT !.disabled_plugin_ids = Append(@, plugin_id)])

\* enable_plugin(plugin_id) on the storage sp of a Space
enable_plugin(sp, caller, plugin_id) ==
  IF ~only_owner(sp, caller) THEN Err("OwnableError", sp)
  ELSE IF ~Contains(sp.plugin_ids, plugin_id) THEN Err("PluginNotFound", sp)
  ELSE Ok(0, [sp EXCEPT
                !.disabled_plugin_ids = Retain(@, LAMBDA x : x # plugin_id)])

\* disable_plugin(plugin_id) on the storage sp of a Space
disable_plugin(sp, caller, plugin_id) ==
  IF ~only_owner(sp, caller) THEN Err("OwnableError", sp)
  ELSE IF ~Contains(sp.plugin_ids, plugin_id) THEN Err("PluginNotFound", sp)
  ELSE IF ~Contains(sp.disabled_plugin_ids, plugin_id)
    THEN Ok(0, [sp EXCEPT !.disabled_plugin_ids = Append(@, plugin_id)])
  ELSE Ok(0, sp)

----------------------------------------------------------------------------
(* The Flipper plugin *)

\* Flipper::new(space_id, launcher_id)
Flipper_new(space_id, launcher_id) ==
  [space_id |-> space_id, launcher_id |-> launcher_id, value |-> FALSE]

\* is_active_member(who) of a Space
is_active_member(st, who) == check_active_member(st, who)

\* a plausible bug: the Flipper asks for a member row, not for an active one
ensure_active_member_row(fl, st, caller) == IF is_member(st, caller) THEN Ok(0, fl) ELSE Err("NotActiveMember", fl)

\* ensure_active_member of the Flipper fl, called by caller; st is the
\* storage of the Space fl.space_id at the time of the call
ensure_active_member(fl, st, caller) ==
  IF is_active_member(st, caller) THEN Ok(0, fl) ELSE Err("NotActiveMember", fl)

\* flip() of the Flipper fl
flip(fl, st, caller) ==
  LET ensured == ensure_active_member(fl, st, caller)
  IN IF ~ensured.ok THEN ensured
     ELSE Ok(0, [fl EXCEPT !.value = ~fl.value])

----------------------------------------------------------------------------
(* Plugin launchers *)

\* a contract call that traps (a panic, a failed instantiation): the caller
\* cannot handle it and the whole transaction reverts
Trap(st) == Err("Trap", st)

\* the account of a contract instantiated by a launcher with the salt
PluginAddress(launcher_id, salt) == launcher_id \o "#" \o ToString(salt)

\* the launchers are constructed with the MotherSpace as their motherspace_id
_ensure_motherspace(st, launcher_id, caller) == MOTHERSPACE = caller

_latest_plugin_code(st, launcher_id) ==
  st.plugin_codes[launcher_id][st.plugin_codes_nonce[launcher_id]]

\* returns the new version and the storage
_upgrade_plugin_code(st, launcher_id, new_plugin_code) ==
  LET next_plugin_code_version == st.plugin_codes_nonce[launcher_id] + 1
  IN Ok(next_plugin_code_version,
        [st EXCEPT
           !.plugin_codes[launcher_id] =
              Insert(@, next_plugin_code_version, new_plugin_code),
           !.plugin_codes_nonce[launcher_id] = next_plugin_code_version])

\* a plausible bug: any caller may upgrade the code of the launcher
PluginLauncher_upgrade_plugin_code_open(st, launcher_id, caller, new_code_hash) ==
  _upgrade_plugin_code(st, launcher_id, new_code_hash)

\* upgrade_plugin_code(new_code_hash) of the launcher launcher_id
PluginLauncher_upgrade_plugin_code(st, launcher_id, caller, new_code_hash) ==
  IF ~_ensure_motherspace(st, launcher_id, caller) THEN Err("UnAuthorized", st)
  ELSE _upgrade_plugin_code(st, launcher_id, new_code_hash)

\* launch(space_id) of the launcher launcher_id; failing is the set of
\* launchers whose instantiation of the plugin fails during this call
launch(st, launcher_id, space_id, failing) ==
  LET next_launches_count == st.launches_count[launcher_id] + 1
      new_contract == PluginAddress(launcher_id, next_launches_count)
  IN IF launcher_id \in failing THEN Trap(st)
     ELSE Ok(new_contract,
             [st EXCEPT
                !.plugin_contracts =
                   Insert(@, new_contract,
                          [space_id |-> space_id, launcher_id |-> launcher_id,
                           salt |-> next_launches_count,
                           code_hash |-> _latest_plugin_code(st, launcher_id)]),
                !.launches_count[launcher_id] = next_launches_count])

----------------------------------------------------------------------------
(* MotherSpace *)

ensure_owner(st, caller) == st.ms_owner_id = caller

\* a plausible bug: a kind already registered is registered again
register_plugin_launcher_again(st, caller, plugin_id, launcher_address) ==
  IF ~ensure_owner(st, caller) THEN Err("UnAuthorized", st)
  ELSE LET new_plugin_id == st.plugins_nonce
       IN Ok(new_plugin_id,
             [st EXCEPT
                !.plugin_launchers = Insert(@, new_plugin_id, plugin_id),
                !.ids_to_plugin_launchers = Insert(@, plugin_id, launcher_address),
                !.plugins_nonce = new_plugin_id + 1])

register_plugin_launcher(st, caller, plugin_id, launcher_address) ==
  IF ~ensure_owner(st, caller) THEN Err("UnAuthorized", st)
  ELSE IF plugin_id \in DOMAIN st.ids_to_plugin_launchers
    THEN Err("PluginIdExisted", st)
  ELSE LET new_plugin_id == st.plugins_nonce
       IN Ok(new_plugin_id,
             [st EXCEPT
                !.plugin_launchers = Insert(@, new_plugin_id, plugin_id),
                !.ids_to_plugin_launchers = Insert(@, plugin_id, launcher_address),
                !.plugins_nonce = new_plugin_id + 1])

\* a plausible bug: a kind without a launcher fails the install
RECURSIVE launch_loop_strict(_, _, _, _, _, _)
launch_loop_strict(st, space_id, plugins_, i, deployed_plugins, failing) ==
  IF i > Len(plugins_) THEN Ok(deployed_plugins, st)
  ELSE LET plugin_id == plugins_[i]
           opt_launcher == Get(st.ids_to_plugin_launchers, plugin_id)
       IN IF ~IsSome(opt_launcher) THEN Err("PluginNotFound", st)
          ELSE LET plugin_address_rs == launch(st, opt_launcher[1], space_id,
                                               failing)
               IN IF plugin_address_rs.ok
                  THEN launch_loop_strict(plugin_address_rs.st, space_id,
                                          plugins_, i + 1,
                                          Append(deployed_plugins,
                                                 <<plugin_id, plugin_address_rs.val>>),
                                          failing)
                  ELSE IF plugin_address_rs.err = "Trap" THEN Trap(st)
                  ELSE Err("PluginLaunchFailed", st)

latest_space_code_impl(st) == st.space_codes[st.space_codes_nonce]

\* a plausible bug: the new code replaces the latest version
upgrade_space_code_impl_replace(st, new_space_code) ==
  [st EXCEPT !.space_codes = Insert(@, st.space_codes_nonce, new_space_code)]

upgrade_space_code_impl(st, new_space_code) ==
  LET next_space_code_version == st.space_codes_nonce + 1
  IN [st EXCEPT
        !.space_codes = Insert(@, next_space_code_version, new_space_code),
        !.space_codes_nonce = next_space_code_version]

upgrade_space_code(st, caller, new_space_code) ==
  IF ~ensure_owner(st, caller) THEN Err("UnAuthorized", st)
  ELSE Ok(0, upgrade_space_code_impl(st, new_space_code))

transfer_ownership(st, caller, who) ==
  IF ~ensure_owner(st, caller) THEN Err("UnAuthorized", st)
  ELSE Ok(0, [st EXCEPT !.ms_owner_id = who])

\* the Version the MotherSpace reads from the reply of the launcher, a
\* Result<Version, LauncherError> in a MessageResult, which it decodes as a
\* MessageResult<Version>: the tag of Ok and the low three bytes of the version
MisreadVersion(version) == (version % 16777216) * 256

\* MotherSpace::upgrade_plugin_code(plugin_id, new_code_hash); decodes tells
\* whether the build's decoder accepts the reply although a byte of it is
\* left over, or rejects it so that invoke() panics
upgrade_plugin_code(st, caller, plugin_id, new_code_hash, decodes) ==
  IF ~ensure_owner(st, caller) THEN Err("UnAuthorized", st)
  ELSE LET launcher == Get(st.ids_to_plugin_launchers, plugin_id)
       IN IF ~IsSome(launcher) THEN Err("PluginNotFound", st)
          ELSE LET reply == PluginLauncher_upgrade_plugin_code(
                              st, launcher[1], MOTHERSPACE, new_code_hash)
               IN IF ~decodes THEN Trap(st)
                  ELSE Ok(MisreadVersion(reply.val), reply.st)

\* the for loop of install_plugins_impl from plugin i on; deployed_plugins
\* are the (PluginId, AccountId) pairs launched so far
RECURSIVE launch_loop(_, _, _, _, _, _)
launch_loop(st, space_id, plugins_, i, deployed_plugins, failing) ==
  IF i > Len(plugins_) THEN Ok(deployed_plugins, st)
  ELSE LET plugin_id == plugins_[i]
           opt_launcher == Get(st.ids_to_plugin_launchers, plugin_id)
       IN IF ~IsSome(opt_launcher)
          THEN launch_loop(st, space_id, plugins_, i + 1, deployed_plugins,
                           failing)
          ELSE LET plugin_address_rs == launch(st, opt_launcher[1], space_id,
                                               failing)
               IN IF plugin_address_rs.ok
                  THEN launch_loop(plugin_address_rs.st, space_id, plugins_,
                                   i + 1,
                                   Append(deployed_plugins,
                                          <<plugin_id, plugin_address_rs.val>>),
                                   failing)
                  ELSE IF plugin_address_rs.err = "Trap" THEN Trap(st)
                  ELSE Err("PluginLaunchFailed", st)

install_plugins_impl(st, space_id, plugins_, failing) ==
  LET launched == launch_loop(st, space_id, plugins_, 1, << >>, failing)
  IN IF ~launched.ok THEN launched
     ELSE LET deployed_plugins == launched.val
              result == attach_plugins(GetSpace(launched.st, space_id),
                                       MOTHERSPACE, deployed_plugins)
          IN IF deployed_plugins = << >> THEN Ok(deployed_plugins, launched.st)
             ELSE IF result.ok
               THEN Ok(deployed_plugins,
                       PutSpace(launched.st, space_id, result.st))
             ELSE Err("Custom", launched.st)

install_plugins(st, caller, space_id, plugins_, failing) ==
  IF ~is_deployed_space_impl(st, space_id) THEN Err("SpaceNotFound", st)
  ELSE LET space_owner_id == GetSpace(st, space_id).owner
       IN IF space_owner_id # caller THEN Err("UnAuthorized", st)
          ELSE install_plugins_impl(st, space_id, plugins_, failing)

----------------------------------------------------------------------------
(* Construction *)

\* the chain before any Space is deployed, at the first block timestamp: the
\* MotherSpace (MotherSpace::new) owned by MS_OWNER, the launchers, no Space
Genesis ==
  [now |-> 1, owner |-> ALICE, config |-> default_config,
   members |-> [a \in Accounts |-> None],
   index_to_member |-> << >>, members_nonce |-> 0,
   requests |-> << >>,
   registrant_to_request |-> [a \in Accounts |-> None],
   pending_requests |-> << >>, requests_nonce |-> 0,
   balance |-> [a \in Accounts \cup {SPACE} |-> IF a = SPACE THEN 0 ELSE InitBalance],
   members_to_spaces |-> [a \in Accounts |-> << >>],
   deployed_spaces |-> << >>,
   plugins |-> << >>, plugin_ids |-> << >>, disabled_plugin_ids |-> << >>,
   spaces |-> << >>, index_to_space |-> << >>, spaces_count |-> 0,
   ms_owner_id |-> MS_OWNER,
   ids_to_plugin_launchers |-> << >>, plugin_launchers |-> << >>,
   plugins_nonce |-> 0,
   launches_count |-> [l \in Launchers |-> 0],
   plugin_contracts |-> << >>,
   space_codes |-> (1 :> CODE), space_codes_nonce |-> 1,
   plugin_codes |-> [l \in Launchers |-> (1 :> CODE)],
   plugin_codes_nonce |-> [l \in Launchers |-> 1]]

\* Space::default(): the storage of a Space before its constructor has written
DefaultSpace(st) ==
  [st EXCEPT
     !.config = default_config,
     !.members = [a \in DOMAIN st.members |-> None],
     !.index_to_member = << >>, !.members_nonce = 0,
     !.requests = << >>,
     !.registrant_to_request = [a \in DOMAIN st.registrant_to_request |-> None],
     !.pending_requests = << >>, !.requests_nonce = 0,
     !.plugins = << >>, !.plugin_ids = << >>, !.disabled_plugin_ids = << >>]

\* Space::new(motherspace_id, owner_id, space_info, config); the result holds
\* the storage of the new Space in its SpaceFields
new(st, caller, motherspace_id, owner_id, space_info, maybe_config) ==
  IF motherspace_id # caller THEN Err("Custom", st)
  ELSE IF ~(len(space_info.name) <= 30) THEN Err("Custom", st)
  ELSE IF ~(len(space_info.name) >= 3) THEN Err("Custom", st)
  ELSE IF IsSome(space_info.desc) /\ ~(len(space_info.desc[1]) <= 200)
    THEN Err("Custom", st)
  ELSE do_grant_membership(
         [DefaultSpace(st) EXCEPT !.config = normalize_config(maybe_config),
                                  !.owner = owner_id],
         owner_id, None, FALSE)

\* the account of the Space instantiated with the salt spaces_count
SpaceId(salt) == IF salt = 0 THEN SPACE ELSE SPACE \o ToString(salt)

\* a plausible bug: the new Space is not recorded as deployed
deploy_new_space_unrecorded(st, caller, info, maybe_config, owner_, plugins_, failing) ==
  LET new_spaces_count == st.spaces_count
      owner_id == IF IsSome(owner_) THEN owner_[1] ELSE caller
      new_space_id == SpaceId(new_spaces_count)
      new_space == new(st, MOTHERSPACE, MOTHERSPACE, owner_id, info, maybe_config)
      st1 == PutSpace(st, new_space_id, Storage(new_space.st))
      st2 == [st1 EXCEPT
                !.index_to_space = Insert(@, new_spaces_count, new_space_id),
                !.spaces_count = new_spaces_count + 1]
      st3 == add_space_member_impl(st2, new_space_id, owner_id)
  IN IF ~new_space.ok THEN Trap(st)
     ELSE Ok(<<new_space_id, << >> >>, st3)

\* a plausible bug: a failed install is swallowed (unwrap_or_default) and the
\* Space is deployed with what was launched so far
deploy_new_space_lenient(st, caller, info, maybe_config, owner_, plugins_, failing) ==
  LET new_spaces_count == st.spaces_count
      owner_id == IF IsSome(owner_) THEN owner_[1] ELSE caller
      new_space_id == SpaceId(new_spaces_count)
      new_space == new(st, MOTHERSPACE, MOTHERSPACE, owner_id, info, maybe_config)
      st1 == PutSpace(st, new_space_id, Storage(new_space.st))
      st2 == [st1 EXCEPT
                !.deployed_spaces = Insert(@, new_space_id, owner_id),
                !.index_to_space = Insert(@, new_spaces_count, new_space_id),
                !.spaces_count = new_spaces_count + 1]
      st3 == add_space_member_impl(st2, new_space_id, owner_id)
      deployed_plugins ==
        IF IsSome(plugins_)
        THEN install_plugins_impl(st3, new_space_id, plugins_[1], failing)
        ELSE Ok(<< >>, st3)
  IN IF ~new_space.ok THEN Trap(st)
     ELSE IF ~deployed_plugins.ok THEN Ok(<<new_space_id, << >> >>, st3)
     ELSE Ok(<<new_space_id, deployed_plugins.val>>, deployed_plugins.st)

\* MotherSpace::deploy_new_space(info, config, owner, plugins); an
\* instantiation that fails and the unwrap of a failed install trap
deploy_new_space(st, caller, info, maybe_config, owner_, plugins_, failing) ==
  LET new_spaces_count == st.spaces_count
      owner_id == IF IsSome(owner_) THEN owner_[1] ELSE caller
      new_space_id == SpaceId(new_spaces_count)
      new_space == new(st, MOTHERSPACE, MOTHERSPACE, owner_id, info, maybe_config)
      st1 == PutSpace(st, new_space_id, Storage(new_space.st))
      st2 == [st1 EXCEPT
                !.deployed_spaces = Insert(@, new_space_id, owner_id),
                !.index_to_space = Insert(@, new_spaces_count, new_space_id),
                !.spaces_count = new_spaces_count + 1]
      st3 == add_space_member_impl(st2, new_space_id, owner_id)
      deployed_plugins ==
        IF IsSome(plugins_)
        THEN install_plugins_impl(st3, new_space_id, plugins_[1], failing)
        ELSE Ok(<< >>, st3)
  IN IF ~new_space.ok THEN Trap(st)
     ELSE IF ~deployed_plugins.ok THEN Trap(st)
     ELSE Ok(<<new_space_id, deployed_plugins.val>>, deployed_plugins.st)

\* the first Space of the MotherSpace, deployed by ALICE for itself
FirstSpace(maybe_config) ==
  deploy_new_space(Genesis, ALICE, [name |-> Str(5, 1), desc |-> None],
                   maybe_config, None, None, {}).st

Write(st) ==
  /\ now' = st.now
  /\ owner' = st.owner
  /\ config' = st.config
  /\ members' = st.members
  /\ index_to_member' = st.index_to_member
  /\ members_nonce' = st.members_nonce
  /\ requests' = st.requests
  /\ registrant_to_request' = st.registrant_to_request
  /\ pending_requests' = st.pending_requests
  /\ requests_nonce' = st.requests_nonce
  /\ balance' = st.balance
  /\ members_to_spaces' = st.members_to_spaces
  /\ deployed_spaces' = st.deployed_spaces
  /\ plugins' = st.plugins
  /\ plugin_ids' = st.plugin_ids
  /\ disabled_plugin_ids' = st.disabled_plugin_ids
  /\ spaces' = st.spaces
  /\ index_to_space' = st.index_to_space
  /\ spaces_count' = st.spaces_count
  /\ ms_owner_id' = st.ms_owner_id
  /\ ids_to_plugin_launchers' = st.ids_to_plugin_launchers
  /\ plugin_launchers' = st.plugin_launchers
  /\ plugins_nonce' = st.plugins_nonce
  /\ launches_count' = st.launches_count
  /\ plugin_contracts' = st.plugin_contracts
  /\ space_codes' = st.space_codes
  /\ space_codes_nonce' = st.space_codes_nonce
  /\ plugin_codes' = st.plugin_codes
  /\ plugin_codes_nonce' = st.plugin_codes_nonce
  /\ flipper' = flipper

Init ==
  \E maybe_config \in {None} \cup {Some(c) : c \in SpaceConfigs} :
    LET st == FirstSpace(maybe_config)
    IN /\ now = st.now
       /\ owner = st.owner
       /\ config = st.config
       /\ members = st.members
       /\ index_to_member = st.index_to_member
       /\ members_nonce = st.members_nonce
       /\ requests = st.requests
       /\ registrant_to_request = st.registrant_to_request
       /\ pending_requests = st.pending_requests
       /\ requests_nonce = st.requests_nonce
       /\ balance = st.balance
       /\ members_to_spaces = st.members_to_spaces
       /\ deployed_spaces = st.deployed_spaces
       /\ plugins = st.plugins
       /\ plugin_ids = st.plugin_ids
       /\ disabled_plugin_ids = st.disabled_plugin_ids
       /\ spaces = st.spaces
       /\ index_to_space = st.index_to_space
       /\ spaces_count = st.spaces_count
       /\ ms_owner_id = st.ms_owner_id
       /\ ids_to_plugin_launchers = st.ids_to_plugin_launchers
       /\ plugin_launchers = st.plugin_launchers
       /\ plugins_nonce = st.plugins_nonce
       /\ launches_count = st.launches_count
       /\ plugin_contracts = st.plugin_contracts
       /\ space_codes = st.space_codes
       /\ space_codes_nonce = st.space_codes_nonce
       /\ plugin_codes = st.plugin_codes
       /\ plugin_codes_nonce = st.plugin_codes_nonce
       /\ flipper = Flipper_new(SPACE, "flipper_launcher")

----------------------------------------------------------------------------
(* Inputs *)

\* Option<AccountId>
WhoArgs == {None} \cup {Some(a) : a \in Accounts}
\* Vec<(AccountId, bool)> of at most MaxBatch entries
Approvals == UNION {[1..n -> (Accounts \ {ALICE}) \X BOOLEAN] : n \in 0..MaxBatch}
\* the sets of accounts that cannot take a transfer during one call
Blocked == {{}, {"bob"}}

(* Actions: one per message, a message that returns Err changes nothing *)

\* the block timestamp moves on
Tick ==
  /\ \E t \in Times : t > now /\ now' = t
  /\ UNCHANGED <<owner, config, members, index_to_member, members_nonce, requests,
                 registrant_to_request, pending_requests, requests_nonce, balance,
                 members_to_spaces, deployed_spaces, registry, flipper>>

GrantMembership ==
  \E caller \in Accounts, who \in Accounts, ttl_ \in Ttls :
    Write(Message(St, grant_membership(St, caller, who, ttl_)))

PayToJoin ==
  \E caller \in Accounts, who \in WhoArgs, value \in Values :
    /\ balance[caller] >= value
    /\ Write(Message(St, pay_to_join(St, caller, who, value)))

RegisterMembership ==
  \E caller \in Accounts, who \in WhoArgs, value \in Values :
    /\ balance[caller] >= value
    /\ requests_nonce < MaxRequests
    /\ Write(Message(St, register_membership(St, caller, who, value)))

CancelRequest ==
  \E caller \in Accounts, blocked \in Blocked :
    Write(Message(St, cancel_request(St, caller, blocked)))

SubmitRequestApprovals ==
  \E caller \in Accounts, approvals \in Approvals, blocked \in Blocked :
    Write(Message(St, submit_request_approvals(St, caller, approvals, blocked)))

Leave ==
  \E caller \in Accounts :
    Write(Message(St, leave(St, caller)))

UpdateMemberInfo ==
  \E caller \in Accounts, name \in NameArgs :
    Write(Message(St, update_member_info(St, caller, name)))

UpdateConfig ==
  \E caller \in Accounts, cfg \in SpaceConfigs :
    Write(Message(St, update_config(St, caller, cfg)))

Next ==
  \/ Tick
  \/ GrantMembership
  \/ PayToJoin
  \/ RegisterMembership
  \/ CancelRequest
  \/ SubmitRequestApprovals
  \/ Leave
  \/ UpdateMemberInfo
  \/ UpdateConfig

Spec == Init /\ [][Next]_vars

\* The pay-to-join path: the messages that write the member ledger outside the
\* request workflow, over every configuration and time
NextJoin ==
  \/ Tick
  \/ GrantMembership
  \/ PayToJoin
  \/ Leave
  \/ UpdateConfig

SpecJoin == Init /\ [][NextJoin]_vars

\* The member rows: the messages that grant, end and describe a membership
\* under the configuration the Space was deployed with
NextInfo ==
  \/ Tick
  \/ GrantMembership
  \/ Leave
  \/ UpdateMemberInfo

SpecInfo == Init /\ [][NextInfo]_vars

\* PluginId: [u8; 4]
PluginIds == {"FLIP", "POST"}
\* Vec<PluginId> of at most MaxPlugins ids
PluginLists == UNION {[1..n -> PluginIds] : n \in 0..MaxPlugins}
\* the sets of launchers whose instantiation fails during one call
Failing == {{}, {"posts_launcher"}}
\* SpaceInfo: a name of 5 bytes and one of 2 bytes
SpaceInfos == {[name |-> Str(5, 1), desc |-> None],
               [name |-> Str(2, 1), desc |-> None]}
\* the accounts of the Spaces deployed and of one that is not
SpaceArgs == {SpaceId(n) : n \in 0..(MaxSpaces + 1)}

\* the number of plugins launched so far
Launched == Cardinality(DOMAIN plugin_contracts)

DeployNewSpace ==
  \E caller \in Accounts, info \in SpaceInfos,
     maybe_config \in {None, Some([registration |-> "InviteOnly",
                                   pricing |-> OneTimePaid(1)])},
     owner_ \in WhoArgs, plugins_ \in {None} \cup {Some(l) : l \in PluginLists},
     failing \in Failing :
    /\ spaces_count <= MaxSpaces
    /\ Launched + MaxPlugins <= MaxLaunches
    /\ Write(Message(St, deploy_new_space(St, caller, info, maybe_config,
                                          owner_, plugins_, failing)))

InstallPlugins ==
  \E caller \in Accounts, space_id \in SpaceArgs, plugins_ \in PluginLists,
     failing \in Failing :
    /\ Launched + MaxPlugins <= MaxLaunches
    /\ Write(Message(St, install_plugins(St, caller, space_id, plugins_, failing)))

RegisterPluginLauncher ==
  \E caller \in Accounts, plugin_id \in PluginIds, launcher_address \in Launchers :
    Write(Message(St, register_plugin_launcher(St, caller, plugin_id,
                                               launcher_address)))

\* launch is a message of the launcher that any account can call
Launch ==
  \E launcher_id \in Launchers, space_id \in SpaceArgs, failing \in Failing :
    /\ Launched < MaxLaunches
    /\ Write(Message(St, launch(St, launcher_id, space_id, failing)))

\* attach_plugins of the Space SPACE called by an account
AttachPlugins ==
  \E caller \in Accounts, plugin_id \in PluginIds :
    LET r == attach_plugins(Storage(St), caller, <<<<plugin_id, caller>>>>)
    IN Write(PutSpace(St, SPACE, Message(Storage(St), r)))

\* The registry: the messages that deploy Spaces, register launchers and
\* launch and attach plugins
NextRegistry ==
  \/ DeployNewSpace
  \/ InstallPlugins
  \/ RegisterPluginLauncher
  \/ Launch
  \/ AttachPlugins

\* the MotherSpace with its first Space under the default configuration
InitRegistry ==
  LET st == FirstSpace(None)
  IN /\ now = st.now
     /\ owner = st.owner
     /\ config = st.config
     /\ members = st.members
     /\ index_to_member = st.index_to_member
     /\ members_nonce = st.members_nonce
     /\ requests = st.requests
     /\ registrant_to_request = st.registrant_to_request
     /\ pending_requests = st.pending_requests
     /\ requests_nonce = st.requests_nonce
     /\ balance = st.balance
     /\ members_to_spaces = st.members_to_spaces
     /\ deployed_spaces = st.deployed_spaces
     /\ plugins = st.plugins
     /\ plugin_ids = st.plugin_ids
     /\ disabled_plugin_ids = st.disabled_plugin_ids
     /\ spaces = st.spaces
     /\ index_to_space = st.index_to_space
     /\ spaces_count = st.spaces_count
     /\ ms_owner_id = st.ms_owner_id
     /\ ids_to_plugin_launchers = st.ids_to_plugin_launchers
     /\ plugin_launchers = st.plugin_launchers
     /\ plugins_nonce = st.plugins_nonce
     /\ launches_count = st.launches_count
     /\ plugin_contracts = st.plugin_contracts
     /\ space_codes = st.space_codes
     /\ space_codes_nonce = st.space_codes_nonce
     /\ plugin_codes = st.plugin_codes
     /\ plugin_codes_nonce = st.plugin_codes_nonce
     /\ flipper = Flipper_new(SPACE, "flipper_launcher")

SpecRegistry == InitRegistry /\ [][NextRegistry]_vars

\* add_space_member(who) of the MotherSpace called by an account
AddSpaceMember ==
  \E caller \in Accounts, who \in Accounts :
    Write(Message(St, add_space_member(St, caller, who)))

\* remove_space_member(who) of the MotherSpace called by an account
RemoveSpaceMember ==
  \E caller \in Accounts, who \in Accounts :
    Write(Message(St, remove_space_member(St, caller, who)))

\* The ledgers of the MotherSpace: the messages that deploy Spaces and those
\* of the first Space that add and remove its links in members_to_spaces
NextLedger ==
  \/ DeployNewSpace
  \/ GrantMembership
  \/ PayToJoin
  \/ Leave
  \/ AddSpaceMember
  \/ RemoveSpaceMember

SpecLedger == InitRegistry /\ [][NextLedger]_vars

\* the u32 arguments from and per_page of a list query
Froms == {0, 1, 20, 50, 60}
PerPages == {0, 1, 10, 50, 51, 60}

\* deploy_new_space by ALICE for itself, without plugins
DeployNext ==
  /\ spaces_count <= MaxDeployed
  /\ Write(Message(St, deploy_new_space(St, ALICE,
                                        [name |-> Str(5, 1), desc |-> None],
                                        None, None, None, {})))

\* list_spaces is a query: it returns a page and writes nothing
ListSpaces ==
  \E from \in Froms, per_page \in PerPages :
    /\ list_spaces(St, from, per_page).total = spaces_count
    /\ UNCHANGED vars

\* list_members is a query: it returns a page and writes nothing
ListMembers ==
  \E from \in Froms, per_page \in PerPages :
    /\ list_members(St, from, per_page).total = members_nonce
    /\ UNCHANGED vars

\* The pages: the Spaces are deployed one after the other while accounts join
\* and leave the first Space, and the lists are queried
NextPages ==
  \/ DeployNext
  \/ PayToJoin
  \/ Leave
  \/ ListSpaces
  \/ ListMembers

SpecPages == InitRegistry /\ [][NextPages]_vars

TransferOwnership ==
  \E caller \in Accounts, who \in Accounts :
    Write(Message(St, transfer_ownership(St, caller, who)))

UpgradeSpaceCode ==
  \E caller \in Accounts, new_space_code \in Hashes :
    /\ space_codes_nonce <= MaxUpgrades
    /\ Write(Message(St, upgrade_space_code(St, caller, new_space_code)))

UpgradePluginCode ==
  \E caller \in Accounts, plugin_id \in PluginIds, new_code_hash \in Hashes,
     decodes \in BOOLEAN :
    /\ \A l \in Launchers : plugin_codes_nonce[l] <= MaxUpgrades
    /\ Write(Message(St, upgrade_plugin_code(St, caller, plugin_id,
                                             new_code_hash, decodes)))

\* upgrade_plugin_code of a launcher called by an account
LauncherUpgradePluginCode ==
  \E caller \in Accounts, launcher_id \in Launchers, new_code_hash \in Hashes :
    Write(Message(St, PluginLauncher_upgrade_plugin_code(
                        St, launcher_id, caller, new_code_hash)))

\* The code logs: the messages that upgrade the codes, register launchers and
\* hand over the MotherSpace
NextCodes ==
  \/ TransferOwnership
  \/ UpgradeSpaceCode
  \/ UpgradePluginCode
  \/ LauncherUpgradePluginCode
  \/ RegisterPluginLauncher

SpecCodes == InitRegistry /\ [][NextCodes]_vars

\* enable_plugin of a Space called by an account
EnablePlugin ==
  \E space_id \in DOMAIN deployed_spaces, caller \in Accounts,
     plugin_id \in PluginIds :
    LET sp == GetSpace(St, space_id)
    IN Write(PutSpace(St, space_id,
                      Message(sp, enable_plugin(sp, caller, plugin_id))))

\* disable_plugin of a Space called by an account
DisablePlugin ==
  \E space_id \in DOMAIN deployed_spaces, caller \in Accounts,
     plugin_id \in PluginIds :
    LET sp == GetSpace(St, space_id)
    IN Write(PutSpace(St, space_id,
                      Message(sp, disable_plugin(sp, caller, plugin_id))))

\* The plugins of the Spaces: the messages that register launchers, deploy
\* Spaces, install and attach plugins and enable and disable them
NextPlugins ==
  \/ RegisterPluginLauncher
  \/ DeployNewSpace
  \/ InstallPlugins
  \/ AttachPlugins
  \/ EnablePlugin
  \/ DisablePlugin

SpecPlugins == InitRegistry /\ [][NextPlugins]_vars

\* The ways into a Space: the messages that grant, buy, request and decide
\* memberships, those that end them and those that change the configuration
ModeConfigs ==
  {[registration |-> r, pricing |-> OneTimePaid(1)] : r \in RegistrationTypes}

\* update_config with a paid configuration of one of the three modes
SwitchConfig ==
  \E caller \in Accounts, cfg \in ModeConfigs :
    Write(Message(St, update_config(St, caller, cfg)))

NextActive ==
  \/ GrantMembership
  \/ PayToJoin
  \/ RegisterMembership
  \/ SubmitRequestApprovals
  \/ Leave
  \/ SwitchConfig

SpecActive == InitRegistry /\ [][NextActive]_vars

\* flip of the Flipper called by an account
Flip ==
  \E caller \in Accounts :
    /\ flipper' = Message(flipper, flip(flipper, St, caller))
    /\ UNCHANGED <<now, owner, config, members, index_to_member, members_nonce,
                   requests, registrant_to_request, pending_requests,
                   requests_nonce, balance, members_to_spaces,
                   deployed_spaces, registry>>

\* The Flipper: the messages that make and end memberships of the first
\* Space, the passing of time and the flips
NextFlip ==
  \/ Tick
  \/ GrantMembership
  \/ PayToJoin
  \/ Leave
  \/ Flip

SpecFlip == InitRegistry /\ [][NextFlip]_vars

\* The reverse index: the messages that deploy Spaces and that make and end
\* memberships of the first Space, and the passing of time
\* deploy_new_space without plugins, for the caller or for another owner
DeployOwned ==
  \E caller \in Accounts, owner_ \in WhoArgs :
    /\ spaces_count <= MaxSpaces
    /\ Write(Message(St, deploy_new_space(St, caller,
                                          [name |-> Str(5, 1), desc |-> None],
                                          None, owner_, None, {})))

NextIndex ==
  \/ Tick
  \/ DeployOwned
  \/ GrantMembership
  \/ PayToJoin
  \/ Leave

SpecIndex == InitRegistry /\ [][NextIndex]_vars

\* The launches: the messages that launch plugins with the code of the
\* launcher, registered and upgraded meanwhile
NextLaunch ==
  \/ Launch
  \/ InstallPlugins
  \/ RegisterPluginLauncher
  \/ UpgradePluginCode

SpecLaunch == InitRegistry /\ [][NextLaunch]_vars

\* The pending list at its cap: a Space that takes requests for free, and
\* enough accounts to fill the list.  The n-th request is registered by the
\* account Registrants[n]; requests are cancelled once the list is full.
Registrants == [n \in 1..(MAX_PENDING_REQUESTS + MaxCancels + 2) |-> ToString(n)]

GenesisQueue ==
  LET everyone == Accounts \cup {Registrants[n] : n \in DOMAIN Registrants}
  IN [Genesis EXCEPT
        !.members = [a \in everyone |-> None],
        !.registrant_to_request = [a \in everyone |-> None],
        !.balance = [a \in everyone \cup {SPACE} |-> 0],
        !.members_to_spaces = [a \in everyone |-> << >>]]

InitQueue ==
  LET st == deploy_new_space(
              GenesisQueue, ALICE, [name |-> Str(5, 1), desc |-> None],
              Some([registration |-> "RequestToJoin", pricing |-> Free]),
              None, None, {}).st
  IN /\ now = st.now
     /\ owner = st.owner
     /\ config = st.config
     /\ members = st.members
     /\ index_to_member = st.index_to_member
     /\ members_nonce = st.members_nonce
     /\ requests = st.requests
     /\ registrant_to_request = st.registrant_to_request
     /\ pending_requests = st.pending_requests
     /\ requests_nonce = st.requests_nonce
     /\ balance = st.balance
     /\ members_to_spaces = st.members_to_spaces
     /\ deployed_spaces = st.deployed_spaces
     /\ plugins = st.plugins
     /\ plugin_ids = st.plugin_ids
     /\ disabled_plugin_ids = st.disabled_plugin_ids
     /\ spaces = st.spaces
     /\ index_to_space = st.index_to_space
     /\ spaces_count = st.spaces_count
     /\ ms_owner_id = st.ms_owner_id
     /\ ids_to_plugin_launchers = st.ids_to_plugin_launchers
     /\ plugin_launchers = st.plugin_launchers
     /\ plugins_nonce = st.plugins_nonce
     /\ launches_count = st.launches_count
     /\ plugin_contracts = st.plugin_contracts
     /\ space_codes = st.space_codes
     /\ space_codes_nonce = st.space_codes_nonce
     /\ plugin_codes = st.plugin_codes
     /\ plugin_codes_nonce = st.plugin_codes_nonce
     /\ flipper = Flipper_new(SPACE, "flipper_launcher")

\* the next account registers for itself
RegisterNext ==
  /\ requests_nonce < Len(Registrants)
  /\ Write(Message(St, register_membership(
                          St, Registrants[requests_nonce + 1], None, 0)))

\* the account of the latest request cancels it
CancelLatest ==
  /\ requests_nonce >= 1
  /\ Len(pending_requests) >= MAX_PENDING_REQUESTS
  /\ requests_nonce - Len(pending_requests) < MaxCancels
  /\ Write(Message(St, cancel_request(St, Registrants[requests_nonce], {})))

NextQueue ==
  \/ RegisterNext
  \/ CancelLatest

SpecQueue == InitQueue /\ [][NextQueue]_vars

\* The request workflow: the messages that write the requests, the pending list
\* and the escrow, under every configuration a Space is deployed with
NextRequests ==
  \/ Tick
  \/ RegisterMembership
  \/ CancelRequest
  \/ SubmitRequestApprovals

SpecRequests == Init /\ [][NextRequests]_vars

----------------------------------------------------------------------------
(* Claims *)

Statuses == {"None", "Active", "Inactive", "Left"}

Registrant(caller, who) == IF who = None THEN caller ELSE who[1]

\* C8: a membership granted at time t0 through pay_to_join under
\* Subscription(price, days) stores next_renewal_at = t0 + days*86400; with
\* nothing else done, its status is Active at every time before that and
\* Inactive from then on, and the clock moving on writes nothing.
C8_SubscriptionState ==
  \A caller \in Accounts, who \in WhoArgs, value \in Values :
    LET r == pay_to_join(St, caller, who, value)
        registrant == Registrant(caller, who)
        expiry == now + config.pricing.duration * 86400
    IN (balance[caller] >= value /\ config.pricing.kind = "Subscription" /\ r.ok) =>
         /\ r.st.members[registrant] # None
         /\ r.st.members[registrant][1].next_renewal_at = Some(expiry)
         /\ \A t \in Times :
              /\ (now <= t /\ t < expiry) =>
                   member_status(AtTime(r.st, t), registrant) = "Active"
              /\ (now <= t /\ t >= expiry) =>
                   member_status(AtTime(r.st, t), registrant) = "Inactive"

C8_TimeAlone ==
  now' # now =>
    /\ now' > now
    /\ UNCHANGED <<owner, config, members, index_to_member, members_nonce,
                   requests, registrant_to_request, pending_requests,
                   requests_nonce, balance, members_to_spaces, deployed_spaces,
                   registry>>

C9_OneTimePaidState ==
  \A caller \in Accounts, who \in WhoArgs, value \in Values :
    LET r == pay_to_join(St, caller, who, value)
        registrant == Registrant(caller, who)
    IN (/\ balance[caller] >= value
        /\ config.pricing.kind = "OneTimePaid"
        /\ value = config.pricing.price
        /\ r.ok) =>
         /\ r.st.members[registrant] # None
         /\ r.st.members[registrant][1].next_renewal_at = None
         /\ \A t \in Times : member_status(AtTime(r.st, t), registrant) = "Active"

NeverExpires(a) == members[a] # None /\ members[a][1].next_renewal_at = None

C9_UntilLeave ==
  \A a \in Accounts :
    NeverExpires(a) =>
      \/ NeverExpires(a)'
      \/ leave(St, a).ok /\ St' = leave(St, a).st

C9_OneTimePaidForever == [](C9_OneTimePaidState) /\ [][C9_UntilLeave]_vars

\* C9 witness: under OneTimePaid pricing an account that paid the price is a
\* member without expiry, Active a day after it joined
C9_Witness ==
  \E a \in Accounts \ {ALICE} :
    /\ config.pricing.kind = "OneTimePaid"
    /\ balance[a] = InitBalance - config.pricing.price
    /\ balance[SPACE] = config.pricing.price
    /\ NeverExpires(a)
    /\ now > members[a][1].joined_at
    /\ member_status(St, a) = "Active"

\* C10: pay_to_join fails and writes nothing when the registration mode is not
\* PayToJoin, when the target account is Active or Inactive, and when the value
\* is below the price of OneTimePaid or Subscription pricing
\* (InsufficientPayment); under Free pricing any amount is accepted.
C10_PayToJoinRejects ==
  \A caller \in Accounts, who \in WhoArgs, value \in Values :
    LET r == pay_to_join(St, caller, who, value)
        post == Message(St, r)
        registrant == Registrant(caller, who)
        status == member_status(St, registrant)
        existing == status = "Active" \/ status = "Inactive"
        underpaid == /\ config.pricing.kind \in {"OneTimePaid", "Subscription"}
                     /\ value < config.pricing.price
        nothing == /\ ~r.ok
                   /\ post.members = members
                   /\ post.members_nonce = members_nonce
                   /\ post.index_to_member = index_to_member
                   /\ post.members_to_spaces = members_to_spaces
                   /\ post.balance = balance
    IN balance[caller] >= value =>
         /\ config.registration # "PayToJoin" => nothing /\ r.err = "Custom"
         /\ existing => nothing
         /\ (existing /\ config.registration = "PayToJoin") =>
              r.err = "MemberExisted"
         /\ underpaid => nothing
         /\ (underpaid /\ ~existing /\ config.registration = "PayToJoin") =>
              r.err = "InsufficientPayment"
         /\ (/\ config.registration = "PayToJoin"
             /\ config.pricing.kind = "Free"
             /\ ~existing) => r.ok

\* C10 witness: a payment for an expired member is taken by the handler and
\* goes back when the message fails with MemberExisted, while another account
\* would fail with InsufficientPayment
C10_Witness ==
  \E caller \in Accounts, a \in Accounts, b \in Accounts :
    LET r == pay_to_join(St, caller, Some(a), 1)
    IN /\ balance[caller] >= 1
       /\ member_status(St, a) = "Inactive"
       /\ r.err = "MemberExisted"
       /\ r.st.balance # balance
       /\ pay_to_join(St, caller, Some(b), 0).err = "InsufficientPayment"

\* the live pending request of an account: get_membership_request on the
\* storage of the state
Live(a) == get_membership_request(St, a)

\* C2: a rejected request's escrow goes back to the requestor exactly once: in
\* no step does the requestor of a pending request receive more than the
\* request's amount_paid.
C2_RefundedOnce ==
  [][\A id \in DOMAIN requests :
       Contains(pending_requests, id) =>
         balance'[requests[id].who] - balance[requests[id].who]
           <= requests[id].paid]_vars

\* C3: submit_request_approvals is all-or-nothing: a rejected entry whose
\* refund fails makes the call fail, with CannotRefundPayment(account,
\* request_id) of a rejected entry when the loop reaches the transfer, and the
\* storage, the balances and the MotherSpace's reverse index after the call
\* are those before it.
C3_BatchAllOrNothing ==
  \A approvals \in Approvals, blocked \in Blocked :
    LET r == submit_request_approvals(St, owner, approvals, blocked)
        post == Message(St, r)
        entries == 1..Len(approvals)
        Stuck(i) == /\ approvals[i][2] = FALSE
                    /\ Live(approvals[i][1]) # None
                    /\ approvals[i][1] \in blocked
        \* no entry before i stops the loop in do_grant_membership
        Clean(i) == \A j \in 1..(i - 1) :
                      approvals[j][2] =>
                        /\ member_status(St, approvals[j][1]) # "Active"
                        /\ \A k \in 1..(j - 1) :
                             ~(approvals[k][2]
                               /\ approvals[k][1] = approvals[j][1])
    IN /\ (\E i \in entries : Stuck(i)) => ~r.ok
       /\ (\E i \in entries : Stuck(i) /\ Clean(i)) =>
            r.err = "CannotRefundPayment"
       /\ r.err = "CannotRefundPayment" =>
            /\ \E i \in entries :
                 /\ approvals[i][2] = FALSE
                 /\ Live(approvals[i][1]) # None
                 /\ r.val = <<approvals[i][1], Live(approvals[i][1])[1][1]>>
            /\ post = St
       /\ ~r.ok => post = St

\* C3 witness: a batch whose first entry is processed (the storage the handler
\* returns with differs) and whose second entry cannot be refunded
C3_Witness ==
  \E approvals \in Approvals, blocked \in Blocked :
    LET r == submit_request_approvals(St, owner, approvals, blocked)
    IN /\ Len(approvals) = 2
       /\ r.err = "CannotRefundPayment"
       /\ r.val[1] = approvals[2][1]
       /\ r.st # St
       /\ Message(St, r) = St

\* C4: after a successful submit_request_approvals that approves a live pending
\* request, the account is Active, its next_renewal_at is the approval time +
\* days*86400 under Subscription pricing and None otherwise, and the request
\* is not pending any more.
C4_ApprovedIsActive ==
  [][\A id \in DOMAIN requests :
       (/\ Contains(pending_requests, id)
        /\ requests'[id].approved = Some(TRUE)) =>
         LET a == requests[id].who
         IN /\ ~Contains(pending_requests', id)
            /\ members'[a] # None
            /\ members'[a][1].next_renewal_at =
                 IF config.pricing.kind = "Subscription"
                 THEN Some(now + config.pricing.duration * 86400)
                 ELSE None
            /\ member_status(St', a) = "Active"]_vars

\* C5: pending_requests never holds two requests of one requestor, and
\* register_membership for an account with a live pending request fails and
\* writes nothing.
C5_OnePendingPerAccount ==
  /\ \A i \in 1..Len(pending_requests), j \in 1..Len(pending_requests) :
       i # j =>
         /\ pending_requests[i] # pending_requests[j]
         /\ requests[pending_requests[i]].who # requests[pending_requests[j]].who
  /\ \A caller \in Accounts, who \in WhoArgs, value \in Values :
       LET r == register_membership(St, caller, who, value)
       IN (/\ balance[caller] >= value
           /\ \E i \in 1..Len(pending_requests) :
                requests[pending_requests[i]].who = Registrant(caller, who)) =>
            /\ ~r.ok
            /\ Message(St, r) = St

\* C5 witness: two requests are pending and a paid registration for one of the
\* requestors is refused
C5_Witness ==
  /\ Len(pending_requests) = 2
  /\ \E a \in Accounts :
       /\ Live(a) # None
       /\ balance[a] >= 1
       /\ register_membership(St, a, None, 1).err = "Custom"
       /\ register_membership(St, a, None, 1).st # St

\* C6: cancel_request whose refund transfer fails returns
\* CannotRefundPayment(account, request_id) and leaves the pending list, the
\* request and the balances untouched, so the same caller's cancel_request
\* succeeds once the transfer goes through.
C6_CancelRefundFailure ==
  \A caller \in Accounts, blocked \in Blocked :
    LET live == Live(caller)
        r == cancel_request(St, caller, blocked)
        post == Message(St, r)
        retry == cancel_request(post, caller, {})
    IN (/\ live # None
        /\ (caller \in blocked \/ balance[SPACE] < live[1][2].paid)) =>
         /\ ~r.ok
         /\ r.err = "CannotRefundPayment"
         /\ r.val = <<caller, live[1][1]>>
         /\ post.pending_requests = pending_requests
         /\ post.requests = requests
         /\ post.balance = balance
         /\ post = St
         /\ balance[SPACE] >= live[1][2].paid =>
              /\ retry.ok
              /\ ~Contains(retry.st.pending_requests, live[1][1])
              /\ retry.st.balance[caller] = balance[caller] + live[1][2].paid

\* C6 witness: an account with a paid pending request cannot take the refund
\* now, and the Space holds the escrow for the retry
C6_Witness ==
  \E caller \in Accounts, blocked \in Blocked :
    /\ caller \in blocked
    /\ Live(caller) # None
    /\ Live(caller)[1][2].paid > 0
    /\ balance[SPACE] >= Live(caller)[1][2].paid
    /\ cancel_request(St, caller, blocked).err = "CannotRefundPayment"
    /\ Len(pending_requests) = 2

\* C7: cancel_request by an account with a live pending request, the refund
\* going through, removes exactly that request id from the pending list and
\* moves exactly the request's amount_paid from the Space to the caller; no
\* other pending request, no request record and no member row changes.  By an
\* account without a live pending request it fails and changes nothing.
C7_CancelRefunds ==
  \A caller \in Accounts, blocked \in Blocked :
    LET live == Live(caller)
        r == cancel_request(St, caller, blocked)
        post == Message(St, r)
    IN /\ live = None => (~r.ok /\ r.err = "Custom" /\ post = St)
       /\ (live # None /\ caller \notin blocked
             /\ balance[SPACE] >= live[1][2].paid) => r.ok
       /\ (live # None /\ r.ok) =>
            LET id == live[1][1]
                paid == live[1][2].paid
                Other(x) == x # id
            IN /\ requests[id].who = caller
               /\ post.pending_requests = SelectSeq(pending_requests, Other)
               /\ Len(post.pending_requests) = Len(pending_requests) - 1
               /\ post.balance[caller] = balance[caller] + paid
               /\ post.balance[SPACE] = balance[SPACE] - paid
               /\ \A a \in Accounts \ {caller} : post.balance[a] = balance[a]
               /\ post.members = members
               /\ post.members_nonce = members_nonce
               /\ post.requests = requests
               /\ post.registrant_to_request = registrant_to_request
               /\ post.members_to_spaces = members_to_spaces

\* C7 witness: a request that is neither pending nor decided was cancelled: its
\* requestor has the escrow back while another request is still pending
C7_Witness ==
  \E id \in DOMAIN requests :
    /\ ~Contains(pending_requests, id)
    /\ requests[id].approved = None
    /\ requests[id].paid > 0
    /\ balance[requests[id].who] = InitBalance
    /\ Len(pending_requests) = 1
    /\ cancel_request(St, requests[id].who, {}).err = "Custom"

Left(st, a) == member_status(st, a) = "Left"

C12_LeaveThenGrant ==
  \A a \in Accounts \ {owner} :
    member_status(St, a) = "Active" =>
      LET left == leave(St, a)
      IN /\ left.ok
         /\ left.st.members[a][1].next_renewal_at = Some(0)
         /\ Left(left.st, a)
         /\ \A t \in Times, ttl_ \in Ttls :
              t >= now =>
                LET granted == grant_membership(AtTime(left.st, t), owner, a, ttl_)
                IN /\ granted.ok
                   /\ member_status(granted.st, a) = "Active"
                   /\ granted.st.members_nonce = members_nonce
                   /\ granted.st.index_to_member = index_to_member
                   /\ granted.st.members[a][1].joined_at = members[a][1].joined_at
                   /\ granted.st.members[a][1].name = members[a][1].name

\* C13: leave called by the owner fails (Custom("Owner cannot leave the
\* space")), and leave called by an account whose status is None, Inactive or
\* Left fails with NotActiveMember; in both cases no member row and no entry
\* of the MotherSpace's reverse index changes.
C13_LeaveRejects ==
  \A caller \in Accounts, t \in Times :
    t >= now =>
      LET pre == AtTime(St, t)
          r == leave(pre, caller)
          post == Message(pre, r)
          status == member_status(pre, caller)
      IN /\ caller = owner => (~r.ok /\ r.err = "Custom")
         /\ (caller # owner /\ status \in {"None", "Inactive", "Left"}) =>
              (~r.ok /\ r.err = "NotActiveMember")
         /\ (caller # owner /\ status = "Active") => r.ok
         /\ ~r.ok =>
              /\ r.st = pre
              /\ post.members = members
              /\ post.members_to_spaces = members_to_spaces
              /\ post = pre

\* C13 witness: the owner is Active, one account is Inactive and one is Left,
\* and each of them is in the reverse index or was dropped from it
C13_Witness ==
  \E a \in Accounts, b \in Accounts :
    /\ member_status(St, owner) = "Active"
    /\ member_status(St, a) = "Inactive"
    /\ member_status(St, b) = "Left"
    /\ Contains(members_to_spaces[a], SPACE)
    /\ ~Contains(members_to_spaces[b], SPACE)
    /\ leave(St, a).err = "NotActiveMember"
    /\ leave(St, b).err = "NotActiveMember"
    /\ leave(St, owner).err = "Custom"

\* C14: grant_membership(who, ttl) is owner-only; for an account whose status
\* is Active it fails with MemberExisted and the member ledger, members_nonce
\* and the MotherSpace's reverse index are unchanged; for an account whose
\* status is None, Inactive or Left it succeeds and stores next_renewal_at =
\* now + ttl when a ttl is given and None otherwise.
C14_GrantMembership ==
  \A caller \in Accounts, who \in Accounts, ttl_ \in Ttls, t \in Times :
    t >= now =>
      LET pre == AtTime(St, t)
          r == grant_membership(pre, caller, who, ttl_)
          post == Message(pre, r)
          status == member_status(pre, who)
      IN /\ caller # owner => (~r.ok /\ r.err = "OwnableError" /\ r.st = pre)
         /\ (caller = owner /\ status = "Active") =>
              /\ ~r.ok
              /\ r.err = "MemberExisted"
              /\ r.st = pre
              /\ post.members = members
              /\ post.index_to_member = index_to_member
              /\ post.members_nonce = members_nonce
              /\ post.members_to_spaces = members_to_spaces
         /\ (caller = owner /\ status \in {"None", "Inactive", "Left"}) =>
              /\ r.ok
              /\ post.members[who] # None
              /\ post.members[who][1].next_renewal_at =
                   IF ttl_ = None THEN None ELSE Some(t + ttl_[1])
              /\ \A a \in Accounts \ {who} : post.members[a] = members[a]

\* C14 witness: an account that joined at the first block was granted a day of
\* membership a day later, while a grant to the Active owner and a grant by
\* another caller are refused
C14_Witness ==
  \E a \in Accounts \ {ALICE} :
    /\ members[a] # None
    /\ members[a][1].joined_at = 1
    /\ members[a][1].next_renewal_at = Some(2 * 86400 + 1)
    /\ grant_membership(St, owner, owner, None).err = "MemberExisted"
    /\ grant_membership(St, a, a, None).err = "OwnableError"
    /\ \E b \in Accounts : member_status(St, b) = "Left"

\* the accounts that have a member row
Rows(st) == {a \in Accounts : st.members[a] # None}

\* C15: in every reachable state members_nonce is the number of accounts that
\* have a member row and index_to_member maps 0..members_nonce-1 one-to-one
\* onto exactly those accounts; a step creates a row only for an account whose
\* status is None and together with a new index slot, never removes a row or
\* rewrites a slot, and never decreases members_nonce.
C15_IndexState ==
  /\ members_nonce = Cardinality(Rows(St))
  /\ DOMAIN index_to_member = 0..(members_nonce - 1)
  /\ {index_to_member[i] : i \in DOMAIN index_to_member} = Rows(St)
  /\ \A i \in DOMAIN index_to_member, j \in DOMAIN index_to_member :
       index_to_member[i] = index_to_member[j] => i = j
  /\ \A a \in Accounts : members[a] = None <=> member_status(St, a) = "None"

C15_IndexStep ==
  /\ members_nonce' >= members_nonce
  /\ \A i \in DOMAIN index_to_member :
       i \in DOMAIN index_to_member' /\ index_to_member'[i] = index_to_member[i]
  /\ \A a \in Accounts :
       /\ members[a] # None => members'[a] # None
       /\ (members[a] = None /\ members'[a] # None) =>
            /\ member_status(St, a) = "None"
            /\ \E i \in members_nonce..(members_nonce' - 1) :
                 index_to_member'[i] = a
  /\ members_nonce' - members_nonce = Cardinality(Rows(St)' \ Rows(St))

C15_MemberIndex == [](C15_IndexState) /\ [][C15_IndexStep]_vars

\* C15 witness: every account has a row and a slot of its own, one of them
\* left and was granted membership again later on its first row
C15_Witness ==
  \E a \in Accounts \ {ALICE} :
    /\ members_nonce = 3
    /\ Rows(St) = Accounts
    /\ members[a][1].joined_at = 1
    /\ members[a][1].next_renewal_at = Some(2 * 86400 + 1)
    /\ \E b \in Accounts \ {a} : member_status(St, b) = "Left"
    /\ index_to_member[0] = ALICE

\* the stored state apart from the name of account a
NameOnly(pre, post, a, name) ==
  /\ post.members[a] = Some([pre.members[a][1] EXCEPT !.name = name])
  /\ post = [pre EXCEPT !.members[a] = post.members[a]]

C17_PendingCap ==
  /\ Len(pending_requests) <= MAX_PENDING_REQUESTS + 1
  /\ requests_nonce < Len(Registrants) =>
       LET r == register_membership(St, Registrants[requests_nonce + 1], None, 0)
           post == Message(St, r)
       IN /\ Len(pending_requests) <= 500 =>
               /\ r.ok
               /\ post.pending_requests =
                    Append(pending_requests, requests_nonce + 1)
          /\ Len(pending_requests) >= 501 =>
               /\ ~r.ok
               /\ r.err = "Custom"
               /\ r.st = St
               /\ post = St

\* C17 witness: the pending list holds 501 requests after one of 501 was
\* cancelled and another registered, and the next registration is refused
C17_Witness ==
  /\ Len(pending_requests) = 501
  /\ requests_nonce = 502
  /\ ~register_membership(St, Registrants[503], None, 0).ok

----------------------------------------------------------------------------
(* Plugins of a Space *)

\* the accounts of the Spaces deployed so far
Deployed == DOMAIN deployed_spaces
\* the callers of a Space: the accounts and the MotherSpace
Callers == Accounts \cup {MOTHERSPACE}
\* Vec<(PluginId, AccountId)> of at most MaxPlugins pairs
PairLists ==
  UNION {[1..n -> PluginIds \X {"plugin_a", "plugin_b"}] : n \in 0..MaxPlugins}
\* the plugin storage of a Space
PluginFields == {"plugins", "plugin_ids", "disabled_plugin_ids"}
\* the ids of a list of pairs, in order
Ids(pairs) == [i \in 1..Len(pairs) |-> pairs[i][1]]

\* C18: on every deployed Space, attach_plugins succeeds only when the caller
\* is the MotherSpace; when a kind of the batch is already attached the call is
\* rejected and the Space's storage (plugins, plugin_ids, the disabled set) is
\* unchanged; otherwise, called by the MotherSpace, it succeeds, every kind of
\* the batch is in plugins with the address of its (last) pair, no other kind
\* is added or changed, and the kinds are appended to plugin_ids in order.
C18_AttachAllOrNothing ==
  \A space_id \in Deployed, caller \in Callers, pairs \in PairLists :
    LET sp == GetSpace(St, space_id)
        r == attach_plugins(sp, caller, pairs)
        post == Message(sp, r)
        Overlap == \E i \in 1..Len(pairs) : pairs[i][1] \in DOMAIN sp.plugins
    IN /\ r.ok => caller = MOTHERSPACE
       /\ Overlap => /\ ~r.ok
                     /\ r.err = "Custom"
                     /\ r.st = sp
                     /\ \A f \in PluginFields : post[f] = sp[f]
       /\ caller # MOTHERSPACE => ~r.ok /\ post = sp
       /\ (caller = MOTHERSPACE /\ ~Overlap) =>
            /\ r.ok
            /\ DOMAIN post.plugins =
                 DOMAIN sp.plugins \cup {pairs[i][1] : i \in 1..Len(pairs)}
            /\ \A k \in DOMAIN sp.plugins : post.plugins[k] = sp.plugins[k]
            /\ \A i \in 1..Len(pairs) :
                 (\A j \in (i + 1)..Len(pairs) : pairs[j][1] # pairs[i][1]) =>
                   post.plugins[pairs[i][1]] = pairs[i][2]
            /\ post.plugin_ids = sp.plugin_ids \o Ids(pairs)
            /\ post.disabled_plugin_ids = sp.disabled_plugin_ids
            /\ \A f \in SpaceFields \ PluginFields : post[f] = sp[f]

\* C18 witness: the MotherSpace attached one kind to a Space, a batch of that
\* kind and another is rejected, and the other kind alone is accepted
C18_Witness ==
  \E space_id \in Deployed, k1 \in PluginIds, k2 \in PluginIds :
    LET sp == GetSpace(St, space_id)
    IN /\ k1 \in DOMAIN sp.plugins
       /\ k2 \notin DOMAIN sp.plugins
       /\ sp.plugin_ids = <<k1>>
       /\ ~attach_plugins(sp, MOTHERSPACE,
                          <<<<k2, "plugin_a">>, <<k1, "plugin_b">>>>).ok
       /\ attach_plugins(sp, MOTHERSPACE, <<<<k2, "plugin_a">>>>).ok

\* the (Space, kind) pairs under which a plugin address is attached
Attachments(st, address) ==
  {sk \in (DOMAIN st.deployed_spaces) \X PluginIds :
     /\ sk[2] \in DOMAIN GetSpace(st, sk[1]).plugins
     /\ GetSpace(st, sk[1]).plugins[sk[2]] = address}

\* C19: every plugin instance a launcher's launch created is the value of
\* plugins[kind] in exactly one Space, for exactly one kind.
C19_AttachedExactlyOnce ==
  \A address \in DOMAIN plugin_contracts :
    Cardinality(Attachments(St, address)) = 1

----------------------------------------------------------------------------
(* Deployment *)

\* Option<SpaceConfig> arguments of deploy_new_space
DeployConfigs == {None, Some([registration |-> "InviteOnly",
                              pricing |-> OneTimePaid(1)])}
\* Option<Vec<PluginId>> arguments of deploy_new_space
DeployPlugins == {None} \cup {Some(l) : l \in PluginLists}
\* the number of times x occurs in the sequence s
Count(s, x) == Cardinality({i \in DOMAIN s : s[i] = x})

\* C20: a successful deploy_new_space uses the index spaces_count of before
\* the call and a Space account not deployed before, records
\* index_to_space[index] = space_id and deployed_spaces[space_id] = owner,
\* increases spaces_count by exactly one, makes the owner (the caller when no
\* owner is given) an Active member of the new Space with no renewal time, and
\* leaves space_id exactly once in members_to_spaces[owner].
C20_DeployNewSpace ==
  \A caller \in Accounts, info \in SpaceInfos, maybe_config \in DeployConfigs,
     owner_ \in WhoArgs, plugins_ \in DeployPlugins, failing \in Failing :
    LET r == deploy_new_space(St, caller, info, maybe_config, owner_, plugins_,
                              failing)
        post == Message(St, r)
        index == spaces_count
        space_id == r.val[1]
        owner_id == IF IsSome(owner_) THEN owner_[1] ELSE caller
        space == PutSpace(post, SPACE, GetSpace(post, space_id))
    IN r.ok =>
         /\ space_id = SpaceId(index)
         /\ space_id \notin Deployed
         /\ Get(post.index_to_space, index) = Some(space_id)
         /\ Get(post.deployed_spaces, space_id) = Some(owner_id)
         /\ post.spaces_count = spaces_count + 1
         /\ \A i \in DOMAIN index_to_space :
              post.index_to_space[i] = index_to_space[i]
         /\ space.owner = owner_id
         /\ member_status(space, owner_id) = "Active"
         /\ space.members[owner_id][1].next_renewal_at = None
         /\ Count(post.members_to_spaces[owner_id], space_id) = 1
         /\ Count(members_to_spaces[owner_id], space_id) = 0

\* C20 witness: a second Space was deployed for an owner that is not the
\* owner of the first, with a plugin installed, and is recorded under index 1
C20_Witness ==
  \E owner_id \in Accounts \ {owner} :
    /\ spaces_count = 2
    /\ index_to_space[1] = SpaceId(1)
    /\ deployed_spaces[SpaceId(1)] = owner_id
    /\ spaces[SpaceId(1)].members[owner_id][1].next_renewal_at = None
    /\ spaces[SpaceId(1)].plugin_ids # << >>
    /\ members_to_spaces[owner_id] = <<SpaceId(1)>>

\* the launcher registered for the i-th kind of a list of kinds, if any
Resolved(st, plugins_, i) == Get(st.ids_to_plugin_launchers, plugins_[i])
\* a launch of the install of the list fails: a kind of the list has a
\* launcher whose instantiation fails
LaunchFails(st, plugins_, failing) ==
  \E i \in 1..Len(plugins_) :
    /\ IsSome(Resolved(st, plugins_, i))
    /\ Resolved(st, plugins_, i)[1] \in failing
\* the ledgers of the MotherSpace and the counters of the launchers
Ledgers == {"spaces_count", "index_to_space", "deployed_spaces",
            "members_to_spaces", "launches_count"}

\* C21: when a launch fails during deploy_new_space the deploy fails and
\* nothing of it persists: spaces_count, index_to_space, deployed_spaces,
\* members_to_spaces and every launcher's launches_count are as before the
\* call, also when kinds earlier in the list were launched; a deploy that
\* fails for any reason leaves the whole state as it was.  (The attach of a
\* deploy is made on a Space that holds no plugin and does not fail.)
C21_DeployAborts ==
  \A caller \in Accounts, info \in SpaceInfos, plugins_ \in DeployPlugins,
     failing \in Failing :
    LET r == deploy_new_space(St, caller, info, None, None, plugins_, failing)
        post == Message(St, r)
    IN /\ (IsSome(plugins_) /\ LaunchFails(St, plugins_[1], failing)) => ~r.ok
       /\ ~r.ok => /\ r.st = St
                   /\ \A f \in Ledgers : post[f] = St[f]
                   /\ post = St

\* C21 witness: a deploy of two kinds whose first launch succeeds and whose
\* second launch fails is refused, after the first launcher has launched
\* a plugin in an earlier call
C21_Witness ==
  \E k1 \in PluginIds, k2 \in PluginIds :
    LET l1 == Get(ids_to_plugin_launchers, k1)
        l2 == Get(ids_to_plugin_launchers, k2)
        r == deploy_new_space(St, ALICE, [name |-> Str(5, 1), desc |-> None],
                              None, None, Some(<<k1, k2>>), {"posts_launcher"})
    IN /\ l1 = Some("flipper_launcher")
       /\ l2 = Some("posts_launcher")
       /\ launches_count["flipper_launcher"] = 1
       /\ launch(St, "flipper_launcher", SpaceId(spaces_count), {"posts_launcher"}).ok
       /\ ~r.ok
       /\ r.err = "Trap"

\* the kinds of a list that have a launcher, in the order of the list
ResolvedKinds(st, plugins_) ==
  SelectSeq(plugins_, LAMBDA k : k \in DOMAIN st.ids_to_plugin_launchers)

\* C22: deploy_new_space with a list of kinds of which some have a launcher
\* and some have none succeeds when the Space can be created and no launch
\* fails; the returned list holds one (kind, address) pair for every entry of
\* the list whose kind has a launcher, in the order of the list, and no pair
\* for a kind without a launcher; every address is a plugin launched during
\* the call by the launcher of its kind for the new Space; the kinds of the
\* new Space are the returned kinds, each attached with the address of its
\* (last) pair.
C22_SkipUnregistered ==
  \A caller \in Accounts, info \in SpaceInfos, plugins_ \in PluginLists,
     failing \in Failing :
    LET r == deploy_new_space(St, caller, info, None, None, Some(plugins_),
                              failing)
        post == Message(St, r)
        space_id == r.val[1]
        pairs == r.val[2]
        space == GetSpace(post, space_id)
        kinds == ResolvedKinds(St, plugins_)
    IN /\ r.ok <=> (len(info.name) >= 3 /\ ~LaunchFails(St, plugins_, failing))
       /\ r.ok =>
            /\ Ids(pairs) = kinds
            /\ \A i \in 1..Len(pairs) :
                 /\ pairs[i][2] \notin DOMAIN plugin_contracts
                 /\ pairs[i][2] \in DOMAIN post.plugin_contracts
                 /\ post.plugin_contracts[pairs[i][2]] =
                      [space_id |-> space_id,
                       launcher_id |-> ids_to_plugin_launchers[pairs[i][1]],
                       salt |-> post.plugin_contracts[pairs[i][2]].salt,
                       code_hash |->
                         _latest_plugin_code(
                           St, ids_to_plugin_launchers[pairs[i][1]])]
                 /\ \A j \in 1..Len(pairs) : i # j => pairs[i][2] # pairs[j][2]
                 /\ (\A j \in (i + 1)..Len(pairs) : pairs[j][1] # pairs[i][1]) =>
                      space.plugins[pairs[i][1]] = pairs[i][2]
            /\ DOMAIN post.plugin_contracts =
                 DOMAIN plugin_contracts \cup {pairs[i][2] : i \in 1..Len(pairs)}
            /\ DOMAIN space.plugins = {kinds[i] : i \in 1..Len(kinds)}
            /\ space.plugin_ids = kinds
            /\ post.ids_to_plugin_launchers = ids_to_plugin_launchers

\* C22 witness: a second Space was deployed with one plugin while one kind has
\* a launcher and the other has none, and a deploy asking for the kind without
\* launcher first and the other second returns the pair of the second only
C22_Witness ==
  \E k1 \in PluginIds, k2 \in PluginIds :
    LET r == deploy_new_space(St, ALICE, [name |-> Str(5, 1), desc |-> None],
                              None, None, Some(<<k2, k1>>), {})
    IN /\ k1 \in DOMAIN ids_to_plugin_launchers
       /\ k2 \notin DOMAIN ids_to_plugin_launchers
       /\ spaces_count = 2
       /\ spaces[SpaceId(1)].plugin_ids = <<k1>>
       /\ r.ok
       /\ Len(r.val[2]) = 1
       /\ r.val[2][1][1] = k1
       /\ DOMAIN GetSpace(r.st, r.val[1]).plugins = {k1}

----------------------------------------------------------------------------
(* Ledgers of the MotherSpace *)

\* no element occurs twice in the sequence s
NoDuplicates(s) == \A i \in DOMAIN s, j \in DOMAIN s : s[i] = s[j] => i = j

C23_LedgerState ==
  /\ DOMAIN index_to_space = 0..(spaces_count - 1)
  /\ Cardinality(DOMAIN index_to_space) = spaces_count
  /\ \A a \in Accounts : NoDuplicates(members_to_spaces[a])

C23_LedgerStep ==
  /\ spaces_count' >= spaces_count
  /\ \A i \in DOMAIN index_to_space :
       /\ i \in DOMAIN index_to_space'
       /\ index_to_space'[i] = index_to_space[i]

\* C23: in every reachable state spaces_count is the number of populated slots
\* of index_to_space, which are exactly the indices 0..spaces_count-1, and no
\* members_to_spaces[account] holds a Space twice; no step removes or
\* overwrites a populated slot.
C23_Ledgers == [](C23_LedgerState) /\ [][C23_LedgerStep]_vars

\* C23 witness: two Spaces are deployed; an account that joined the first
\* Space, became the owner of the second and left the first is linked to the
\* second only
C23_Witness ==
  \E b \in Accounts :
    /\ spaces_count = 2
    /\ index_to_space = (0 :> SPACE) @@ (1 :> SpaceId(1))
    /\ member_status(St, b) = "Left"
    /\ deployed_spaces[SpaceId(1)] = b
    /\ members_to_spaces[b] = <<SpaceId(1)>>

----------------------------------------------------------------------------
(* Pages *)

C25_PageLimit ==
  \A from \in Froms, per_page \in PerPages :
    LET page == list_spaces(St, from, per_page)
    IN /\ Len(page.items) <= 50
       /\ Len(page.items) <= page.per_page

\* the callers of the MotherSpace: the accounts, the Spaces deployed, the
\* account of a Space that is not deployed, and the MotherSpace itself
LinkCallers == Accounts \cup SpaceArgs \cup {MOTHERSPACE}
\* the sequence s without x
Without(s, x) == SelectSeq(s, LAMBDA y : y # x)
\* the state differs from St in members_to_spaces[who] at most, and there in
\* the presence of space_id at most
OwnLinkOnly(post, space_id, who) ==
  /\ \A f \in DOMAIN St \ {"members_to_spaces"} : post[f] = St[f]
  /\ \A a \in Accounts \ {who} : post.members_to_spaces[a] = members_to_spaces[a]
  /\ Without(post.members_to_spaces[who], space_id) =
       Without(members_to_spaces[who], space_id)

\* C26: add_space_member(who) and remove_space_member(who) succeed exactly
\* when the caller is in deployed_spaces; then they change nothing but the
\* presence of the caller's own id in members_to_spaces[who], which holds it
\* once after an add and not at all after a remove; from any other caller
\* they fail and nothing changes.  Adding a link that is present and removing
\* one that is absent leave members_to_spaces unchanged.
C26_OwnLinks ==
  \A caller \in LinkCallers, who \in Accounts :
    LET add == add_space_member(St, caller, who)
        added == Message(St, add)
        remove == remove_space_member(St, caller, who)
        removed == Message(St, remove)
        present == Contains(members_to_spaces[who], caller)
    IN /\ add.ok <=> caller \in Deployed
       /\ remove.ok <=> caller \in Deployed
       /\ caller \notin Deployed =>
            /\ add.err = "Custom" /\ add.st = St /\ added = St
            /\ remove.err = "Custom" /\ remove.st = St /\ removed = St
       /\ caller \in Deployed =>
            /\ OwnLinkOnly(added, caller, who)
            /\ Count(added.members_to_spaces[who], caller) = 1
            /\ OwnLinkOnly(removed, caller, who)
            /\ Count(removed.members_to_spaces[who], caller) = 0
            /\ present => added.members_to_spaces = members_to_spaces
            /\ ~present => removed.members_to_spaces = members_to_spaces
            /\ ~present =>
                 added.members_to_spaces[who] =
                   Append(members_to_spaces[who], caller)

\* C26 witness: two Spaces are deployed and an account is linked to both; the
\* first Space removes its own link and the link of the second stays, and the
\* account of a Space that is not deployed cannot add a link
C26_Witness ==
  \E who \in Accounts :
    /\ spaces_count = 2
    /\ members_to_spaces[who] = <<SPACE, SpaceId(1)>>
    /\ remove_space_member(St, SPACE, who).st.members_to_spaces[who] =
         <<SpaceId(1)>>
    /\ ~add_space_member(St, SpaceId(2), who).ok
    /\ ~add_space_member(St, who, who).ok

----------------------------------------------------------------------------
(* Launchers and code logs of the MotherSpace *)

C27_RegistryState ==
  /\ plugins_nonce = Cardinality(DOMAIN ids_to_plugin_launchers)
  /\ DOMAIN plugin_launchers = 0..(plugins_nonce - 1)
  /\ {plugin_launchers[i] : i \in DOMAIN plugin_launchers} =
       DOMAIN ids_to_plugin_launchers
  /\ \A i \in DOMAIN plugin_launchers, j \in DOMAIN plugin_launchers :
       plugin_launchers[i] = plugin_launchers[j] => i = j
  /\ \A caller \in Accounts, plugin_id \in PluginIds,
        launcher_address \in Launchers :
       LET r == register_plugin_launcher(St, caller, plugin_id, launcher_address)
           post == Message(St, r)
           registered == plugin_id \in DOMAIN ids_to_plugin_launchers
       IN /\ r.ok <=> (caller = ms_owner_id /\ ~registered)
          /\ caller # ms_owner_id => r.err = "UnAuthorized"
          /\ (caller = ms_owner_id /\ registered) => r.err = "PluginIdExisted"
          /\ ~r.ok => r.st = St /\ post = St
          /\ r.ok =>
               /\ r.val = plugins_nonce
               /\ post.plugins_nonce = plugins_nonce + 1
               /\ post.plugin_launchers = Insert(plugin_launchers, plugins_nonce,
                                                 plugin_id)
               /\ post.ids_to_plugin_launchers[plugin_id] = launcher_address

C27_RegistryStep ==
  \A plugin_id \in DOMAIN ids_to_plugin_launchers :
    /\ plugin_id \in DOMAIN ids_to_plugin_launchers'
    /\ ids_to_plugin_launchers'[plugin_id] = ids_to_plugin_launchers[plugin_id]

\* C27: register_plugin_launcher succeeds only for the owner of the
\* MotherSpace and only for a kind that is not registered; it fails with
\* UnAuthorized for another caller and with PluginIdExisted for a registered
\* kind, changing nothing.  In every reachable state plugins_nonce is the
\* number of registered kinds and plugin_launchers holds each of them once
\* at the indices 0..plugins_nonce-1; no step changes or removes the launcher
\* of a registered kind.
C27_RegisterLauncher == [](C27_RegistryState) /\ [][C27_RegistryStep]_vars

\* C27 witness: the MotherSpace changed hands, both kinds are registered, and
\* neither the owner nor the former owner can register a kind a second time
C27_Witness ==
  /\ ms_owner_id # MS_OWNER
  /\ plugins_nonce = 2
  /\ DOMAIN ids_to_plugin_launchers = PluginIds
  /\ plugin_launchers[0] # plugin_launchers[1]
  /\ register_plugin_launcher(St, ms_owner_id, plugin_launchers[0],
                              "posts_launcher").err = "PluginIdExisted"
  /\ register_plugin_launcher(St, MS_OWNER, plugin_launchers[0],
                              "posts_launcher").err = "UnAuthorized"

\* the code logs of the MotherSpace and of the launchers
CodeLogs == <<space_codes, space_codes_nonce, plugin_codes, plugin_codes_nonce>>
\* the callers of a launcher other than its MotherSpace
Strangers == Accounts \cup SpaceArgs \cup Launchers

C28_CodeState ==
  /\ \A caller \in Accounts \ {ms_owner_id}, new_code \in Hashes :
       LET r == upgrade_space_code(St, caller, new_code)
       IN r.err = "UnAuthorized" /\ r.st = St /\ Message(St, r) = St
  /\ \A caller \in Accounts \ {ms_owner_id}, plugin_id \in PluginIds,
        new_code \in Hashes, decodes \in BOOLEAN :
       LET r == upgrade_plugin_code(St, caller, plugin_id, new_code, decodes)
       IN r.err = "UnAuthorized" /\ r.st = St /\ Message(St, r) = St
  /\ \A caller \in Strangers, launcher_id \in Launchers, new_code \in Hashes :
       LET r == PluginLauncher_upgrade_plugin_code(St, launcher_id, caller,
                                                   new_code)
       IN r.err = "UnAuthorized" /\ r.st = St /\ Message(St, r) = St

C28_CodeStep ==
  CodeLogs' # CodeLogs =>
    \E new_code \in Hashes :
      \/ St' = Message(St, upgrade_space_code(St, ms_owner_id, new_code))
      \/ \E plugin_id \in PluginIds, decodes \in BOOLEAN :
           St' = Message(St, upgrade_plugin_code(St, ms_owner_id, plugin_id,
                                                 new_code, decodes))

\* C28: upgrade_space_code and the MotherSpace's upgrade_plugin_code called
\* by an account that is not the current owner of the MotherSpace fail with
\* UnAuthorized and change nothing; a launcher's upgrade_plugin_code called by
\* anyone but the MotherSpace fails with UnAuthorized and changes nothing;
\* every step that changes a code log is a call of upgrade_space_code or of
\* the MotherSpace's upgrade_plugin_code by the current owner.
C28_OwnerUpgrades == [](C28_CodeState) /\ [][C28_CodeStep]_vars

\* C28 witness: the MotherSpace changed hands and a launcher's code was
\* upgraded to another code; the former owner can upgrade neither code
C28_Witness ==
  \E launcher_id \in Launchers, plugin_id \in PluginIds :
    /\ ms_owner_id # MS_OWNER
    /\ ids_to_plugin_launchers = (plugin_id :> launcher_id)
    /\ plugin_codes_nonce[launcher_id] = 2
    /\ _latest_plugin_code(St, launcher_id) = "code_b"
    /\ space_codes_nonce = 2
    /\ upgrade_plugin_code(St, MS_OWNER, plugin_id, CODE, TRUE).err =
         "UnAuthorized"

\* appending new_code to the log (codes, nonce) gave (codes_, nonce_)
Appended(codes, nonce, codes_, nonce_, new_code) ==
  /\ nonce_ = nonce + 1
  /\ DOMAIN codes_ = DOMAIN codes \cup {nonce_}
  /\ codes_[nonce_] = new_code
  /\ \A version \in DOMAIN codes : codes_[version] = codes[version]
\* the log (codes, nonce) became (codes_, nonce_) by at most one append
Grown(codes, nonce, codes_, nonce_) ==
  \/ codes_ = codes /\ nonce_ = nonce
  \/ \E new_code \in Hashes : Appended(codes, nonce, codes_, nonce_, new_code)

C29_LogState ==
  /\ DOMAIN space_codes = 1..space_codes_nonce
  /\ space_codes_nonce >= 1
  /\ latest_space_code_impl(St) = space_codes[space_codes_nonce]
  /\ \A new_code \in Hashes :
       LET post == upgrade_space_code_impl(St, new_code)
       IN /\ Appended(space_codes, space_codes_nonce,
                      post.space_codes, post.space_codes_nonce, new_code)
          /\ latest_space_code_impl(post) = new_code
          /\ post.plugin_codes = plugin_codes
  /\ \A l \in Launchers :
       /\ DOMAIN plugin_codes[l] = 1..plugin_codes_nonce[l]
       /\ plugin_codes_nonce[l] >= 1
       /\ \A new_code \in Hashes :
            LET r == _upgrade_plugin_code(St, l, new_code)
            IN /\ Appended(plugin_codes[l], plugin_codes_nonce[l],
                           r.st.plugin_codes[l], r.st.plugin_codes_nonce[l],
                           new_code)
               /\ r.val = plugin_codes_nonce[l] + 1
               /\ _latest_plugin_code(r.st, l) = new_code
               /\ \A k \in Launchers \ {l} :
                    /\ r.st.plugin_codes[k] = plugin_codes[k]
                    /\ r.st.plugin_codes_nonce[k] = plugin_codes_nonce[k]
               /\ r.st.space_codes = space_codes

C29_LogStep ==
  /\ Grown(space_codes, space_codes_nonce, space_codes', space_codes_nonce')
  /\ \A l \in Launchers :
       Grown(plugin_codes[l], plugin_codes_nonce[l],
             plugin_codes'[l], plugin_codes_nonce'[l])

\* C29: for the code log of the MotherSpace and that of every launcher: an
\* append raises the nonce by exactly one and stores the new code at that
\* version, the log holds the versions 1..nonce, the code of an earlier
\* version never changes, and the latest code is the one appended last, also
\* when it is a code the log already holds.
C29_CodeLogs == [](C29_LogState) /\ [][C29_LogStep]_vars

\* C29 witness: the code of the Spaces was upgraded to another code and back
\* to the first, which is version 3, and a launcher's code was upgraded once
C29_Witness ==
  /\ space_codes = (1 :> CODE) @@ (2 :> "code_b") @@ (3 :> CODE)
  /\ space_codes_nonce = 3
  /\ latest_space_code_impl(St) = CODE
  /\ \E l \in Launchers : plugin_codes[l] = (1 :> CODE) @@ (2 :> "code_b")

----------------------------------------------------------------------------
(* Launches *)

\* the call ended with an Err value handed to its caller (it did not trap)
ReturnsError(r) == ~r.ok /\ r.err # "Trap"
\* the plugin contracts the launcher has instantiated
LaunchedBy(st, launcher_id) ==
  {address \in DOMAIN st.plugin_contracts :
     st.plugin_contracts[address].launcher_id = launcher_id}

\* the part of C30 on successful launches: a launch uses the salt
\* launches_count + 1 and the latest code and raises launches_count by one;
\* the salts a launcher has used are 1..launches_count, each once
C30_Salts ==
  \A launcher_id \in Launchers :
    /\ Cardinality(LaunchedBy(St, launcher_id)) = launches_count[launcher_id]
    /\ {plugin_contracts[address].salt : address \in LaunchedBy(St, launcher_id)}
         = 1..launches_count[launcher_id]
    /\ \A space_id \in SpaceArgs :
         LET r == launch(St, launcher_id, space_id, {})
         IN /\ r.ok
            /\ r.val \notin DOMAIN plugin_contracts
            /\ r.st.plugin_contracts[r.val].salt = launches_count[launcher_id] + 1
            /\ r.st.plugin_contracts[r.val].code_hash =
                 _latest_plugin_code(St, launcher_id)
            /\ r.st.launches_count[launcher_id] = launches_count[launcher_id] + 1

\* C30: every successful launch uses the salt launches_count + 1 and the
\* latest code and raises launches_count by exactly one, so the salts of a
\* launcher are pairwise distinct and increasing; a launch whose nested
\* instantiation fails returns an error and leaves launches_count unchanged.
C30_Launch ==
  /\ C30_Salts
  /\ \A launcher_id \in Launchers, space_id \in SpaceArgs :
       LET r == launch(St, launcher_id, space_id, {launcher_id})
       IN /\ ReturnsError(r)
          /\ Message(St, r).launches_count = launches_count

----------------------------------------------------------------------------
(* Enabling and disabling the plugins of a Space *)

\* The storage of a Space after a message with the result r
After(sp, r) == Message(sp, r)

\* enable_plugin and disable_plugin of an account that is not the owner, or
\* of a kind that is not in plugin_ids, fail and change nothing
SwitchGuarded(sp) ==
  \A caller \in Accounts, plugin_id \in PluginIds :
    LET e == enable_plugin(sp, caller, plugin_id)
        d == disable_plugin(sp, caller, plugin_id)
    IN /\ caller # sp.owner => /\ ~e.ok /\ ~d.ok
                               /\ e.err = "OwnableError"
                               /\ d.err = "OwnableError"
       /\ (caller = sp.owner /\ ~Contains(sp.plugin_ids, plugin_id))
            => /\ ~e.ok /\ ~d.ok
               /\ e.err = "PluginNotFound" /\ d.err = "PluginNotFound"
       /\ (caller = sp.owner /\ Contains(sp.plugin_ids, plugin_id))
            => e.ok /\ d.ok
       /\ ~e.ok => After(sp, e) = sp
       /\ ~d.ok => After(sp, d) = sp
       /\ After(sp, e).plugins = sp.plugins
       /\ After(sp, d).plugins = sp.plugins
       /\ After(sp, e).plugin_ids = sp.plugin_ids
       /\ After(sp, d).plugin_ids = sp.plugin_ids

\* disabling an attached kind twice gives the state of disabling it once,
\* and the kind is in the disabled list once
DisableIdempotent(sp) ==
  \A plugin_id \in PluginIds :
    Contains(sp.plugin_ids, plugin_id) =>
      LET once == After(sp, disable_plugin(sp, sp.owner, plugin_id))
          twice == After(once, disable_plugin(once, sp.owner, plugin_id))
      IN /\ twice = once
         /\ Count(once.disabled_plugin_ids, plugin_id) = 1

\* The disabled list of sp after the owner disables and then enables the kind
DisabledThenEnabled(sp, plugin_id) ==
  LET d == After(sp, disable_plugin(sp, sp.owner, plugin_id))
  IN After(d, enable_plugin(d, sp.owner, plugin_id)).disabled_plugin_ids

\* C31 as stated: enable_plugin and disable_plugin are owner-only and fail
\* with PluginNotFound, changing nothing, for a kind that was never attached;
\* disable_plugin is idempotent and leaves the kind in the disabled list
\* once; enable_plugin after disable_plugin gives back the disabled list of
\* before the disable_plugin; neither changes plugins or plugin_ids.
C31_EnableUndoesDisable ==
  \A space_id \in Deployed :
    LET sp == GetSpace(St, space_id)
    IN /\ SwitchGuarded(sp)
       /\ DisableIdempotent(sp)
       /\ \A plugin_id \in PluginIds :
            Contains(sp.plugin_ids, plugin_id) =>
              DisabledThenEnabled(sp, plugin_id) = sp.disabled_plugin_ids

\* C31, amended: enable_plugin and disable_plugin are owner-only and fail
\* with PluginNotFound, changing nothing, for a kind that was never attached;
\* disable_plugin is idempotent and leaves the kind in the disabled list
\* once; enable_plugin after the disable_plugin of a kind that was not
\* disabled gives back the disabled list of before the disable_plugin, and
\* after the disable_plugin of a kind that was already disabled it gives that
\* list without the kind; neither changes plugins or plugin_ids.
C31_EnableDisable ==
  \A space_id \in Deployed :
    LET sp == GetSpace(St, space_id)
    IN /\ SwitchGuarded(sp)
       /\ DisableIdempotent(sp)
       /\ \A plugin_id \in PluginIds :
            Contains(sp.plugin_ids, plugin_id) =>
              DisabledThenEnabled(sp, plugin_id) =
                IF Contains(sp.disabled_plugin_ids, plugin_id)
                  THEN Retain(sp.disabled_plugin_ids,
                              LAMBDA x : x # plugin_id)
                  ELSE sp.disabled_plugin_ids

\* A Space with two attached kinds, one of them disabled and the other not:
\* the disable_plugin of the one is a repeat, that of the other is not
C31_Witness ==
  \E space_id \in Deployed :
    LET sp == GetSpace(St, space_id)
    IN /\ Len(sp.plugin_ids) >= 2
       /\ Len(sp.disabled_plugin_ids) = 1
       /\ \E plugin_id \in PluginIds :
            /\ Contains(sp.plugin_ids, plugin_id)
            /\ ~Contains(sp.disabled_plugin_ids, plugin_id)

----------------------------------------------------------------------------
(* The configuration of a Space *)

\* An invite-only configuration is free of charge
Normalized(cfg) == cfg.registration = "InviteOnly" => cfg.pricing = Free

\* C32: In every reachable state of a Space, registration = InviteOnly
\* implies pricing = Free: the constructor and update_config both store the
\* normalized configuration, and a Space constructed without a configuration
\* is PayToJoin with Free pricing.
C32_InviteOnlyIsFree ==
  /\ \A space_id \in Deployed : Normalized(GetSpace(St, space_id).config)
  /\ \A cfg \in SpaceConfigs :
       LET u == update_config(St, owner, cfg)
           n == new(Genesis, MOTHERSPACE, MOTHERSPACE, ALICE,
                    [name |-> Str(5, 1), desc |-> None], Some(cfg))
       IN /\ u.ok /\ Normalized(u.st.config)
          /\ u.st.config.registration = cfg.registration
          /\ cfg.registration # "InviteOnly" => u.st.config = cfg
          /\ n.ok /\ n.st.config = u.st.config
  /\ LET n == new(Genesis, MOTHERSPACE, MOTHERSPACE, ALICE,
                  [name |-> Str(5, 1), desc |-> None], None)
     IN n.ok /\ n.st.config = [registration |-> "PayToJoin", pricing |-> Free]

\* An invite-only Space that took a payment: it had a paid configuration
\* and update_config made it invite-only afterwards
C32_Witness ==
  /\ config.registration = "InviteOnly"
  /\ balance[SPACE] > 0
  /\ \E cfg \in SpaceConfigs :
       cfg.registration = "InviteOnly" /\ cfg.pricing # Free

----------------------------------------------------------------------------
(* The outcomes of a membership request *)

\* The step makes the account a member
Joined(a) == ~is_member(St, a) /\ is_member(St', a)

\* The step pays the account
Refunded(a) == balance'[a] > balance[a]

\* C33: a membership request has at most one outcome: no step both grants
\* membership for a pending request and refunds its escrow, whatever the
\* batch given to submit_request_approvals, and a request that is no longer
\* pending is never decided again nor made pending again.
C33_OneOutcome ==
  [][\A id \in DOMAIN requests :
       LET who == requests[id].who
       IN /\ Contains(pending_requests, id) => ~(Joined(who) /\ Refunded(who))
          /\ ~Contains(pending_requests, id) =>
               /\ requests'[id] = requests[id]
               /\ ~Contains(pending_requests', id)]_vars

----------------------------------------------------------------------------
(* The escrow of the pending requests *)

\* The sum of the payments of the requests ids[i..]
RECURSIVE Escrow(_, _, _)
Escrow(st, ids, i) ==
  IF i > Len(ids) THEN 0
  ELSE st.requests[ids[i]].paid + Escrow(st, ids, i + 1)

\* C34: escrow solvency: in every reachable state the balance of the Space
\* is at least the sum of the payments of the pending requests, so that
\* every pending request can be refunded by cancel_request or by a rejection.
C34_EscrowSolvent ==
  balance[SPACE] >= Escrow(St, pending_requests, 1)

----------------------------------------------------------------------------
(* The reverse index of the MotherSpace and the members of the Spaces *)

\* The status of the account in the deployed Space at the current time
StatusIn(space_id, a) ==
  LET sp == GetSpace(St, space_id)
  IN member_status([f \in DOMAIN sp \cup {"now"} |->
                      IF f = "now" THEN now ELSE sp[f]], a)

\* C35: the reverse index of the MotherSpace agrees with the members of the
\* Spaces after every completed message: a deployed Space s is in
\* members_to_spaces[a] exactly when the status of a in s is Active or
\* Inactive, and so is absent when that status is Left or None.
C35_IndexAgrees ==
  \A a \in Accounts, space_id \in Deployed :
    Contains(members_to_spaces[a], space_id)
      <=> StatusIn(space_id, a) \in {"Active", "Inactive"}

\* Two Spaces; in the first one account has left, one is expired and one is
\* active, and the owner of the second is no member of the first
C35_Witness ==
  /\ Cardinality(Deployed) = 2
  /\ \E a \in Accounts, b \in Accounts :
       /\ StatusIn(SPACE, a) = "Left"
       /\ StatusIn(SPACE, b) = "Inactive"
       /\ members_to_spaces[a] = << >>
       /\ members_to_spaces[b] = <<SPACE>>

----------------------------------------------------------------------------
(* The authorization of the plugins *)

\* is_active_member is member_status = Active, and flip succeeds for the
\* Active callers only and fails with NotActiveMember for the others
C36_FlipState ==
  \A a \in Accounts :
    LET r == flip(flipper, St, a)
        active == member_status(St, a) = "Active"
    IN /\ is_active_member(St, a) <=> active
       /\ r.ok <=> active
       /\ r.ok => r.st = [flipper EXCEPT !.value = ~flipper.value]
       /\ ~r.ok => r.err = "NotActiveMember" /\ Message(flipper, r) = flipper

\* The Flipper changes only in a step taken while some account is Active,
\* and only in its value
C36_FlipStep ==
  flipper' # flipper =>
    /\ \E a \in Accounts : member_status(St, a) = "Active"
    /\ flipper' = [flipper EXCEPT !.value = ~flipper.value]

\* C36: is_active_member(a) is true exactly when member_status(a) = Active,
\* for every account at every time; so flip of the Flipper succeeds only for
\* a caller that is Active in the Space at the time of the call, and fails
\* with NotActiveMember for a caller that has left or whose membership has
\* expired.
C36_ActiveOnly == [](C36_FlipState) /\ [][C36_FlipStep]_vars

\* The Flipper was flipped, and now one account has left, one membership has
\* expired and one account is no member: flip fails for all three
C36_Witness ==
  /\ flipper.value
  /\ \E a \in Accounts, b \in Accounts :
       /\ member_status(St, a) = "Left"
       /\ member_status(St, b) = "Inactive"
       /\ flip(flipper, St, a).err = "NotActiveMember"
       /\ flip(flipper, St, b).err = "NotActiveMember"
       /\ flip(flipper, St, owner).ok

----------------------------------------------------------------------------
(* The ways to become an active member *)

\* The accounts that are Active in the Space st
Actives(st) == {a \in Accounts : member_status(st, a) = "Active"}

\* The message with the result r makes no account Active
NoneActivated(r) == Actives(Message(St, r)) \subseteq Actives(St)

\* No call of an account that is not the owner makes an account Active,
\* except pay_to_join in PayToJoin mode with a payment that meets the price
C37_CallsState ==
  /\ \A caller \in Accounts \ {owner} :
       /\ \A who \in Accounts, ttl_ \in Ttls :
            ~grant_membership(St, caller, who, ttl_).ok
       /\ \A approvals \in Approvals, blocked \in Blocked :
            ~submit_request_approvals(St, caller, approvals, blocked).ok
       /\ \A cfg \in SpaceConfigs : ~update_config(St, caller, cfg).ok
       /\ \A who \in WhoArgs, value \in Values :
            NoneActivated(register_membership(St, caller, who, value))
       /\ \A blocked \in Blocked :
            NoneActivated(cancel_request(St, caller, blocked))
       /\ NoneActivated(leave(St, caller))
       /\ \A name \in NameArgs :
            NoneActivated(update_member_info(St, caller, name))
  /\ \A caller \in Accounts, who \in WhoArgs, value \in Values :
       (config.registration # "PayToJoin" \/ ~valid_payment(config, value))
         => ~pay_to_join(St, caller, who, value).ok

\* The step is a grant_membership of the owner for the account, or a
\* submit_request_approvals of the owner that approves the account's
\* pending request
OwnerAuthorized(a) ==
  \/ \E ttl_ \in Ttls :
       St' = Message(St, grant_membership(St, owner, a, ttl_))
  \/ /\ IsSome(get_membership_request(St, a))
     /\ \E approvals \in Approvals, blocked \in Blocked :
          /\ Contains(approvals, <<a, TRUE>>)
          /\ St' = Message(St, submit_request_approvals(St, owner, approvals,
                                                        blocked))

\* The step is a pay_to_join for the account in PayToJoin mode with a
\* payment that meets the price
PaidToJoin(a) ==
  /\ config.registration = "PayToJoin"
  /\ \E caller \in Accounts, who \in WhoArgs, value \in Values :
       /\ a = (IF IsSome(who) THEN who[1] ELSE caller)
       /\ valid_payment(config, value)
       /\ St' = Message(St, pay_to_join(St, caller, who, value))

\* A step that makes an account Active is owner-authorized or a pay_to_join
C37_ActivatingStep ==
  (members' # members \/ now' # now) =>
    \A a \in Actives(St') \ Actives(St) : OwnerAuthorized(a) \/ PaidToJoin(a)

\* C37: an account becomes Active only through an operation of the owner
\* (grant_membership, or submit_request_approvals approving its pending
\* request) or through pay_to_join while the registration is PayToJoin with
\* a payment that meets the price; in InviteOnly and RequestToJoin mode no
\* call of an account that is not the owner makes any account Active.
C37_WaysToActive == [](C37_CallsState) /\ [][C37_ActivatingStep]_vars

\* An account that left and was approved again, one that paid to join, and a
\* Space that is now invite-only
C37_Witness ==
  /\ config.registration = "InviteOnly"
  /\ Len(requests) >= 1
  /\ requests[1].approved = Some(TRUE)
  /\ member_status(St, requests[1].who) = "Active"
  /\ balance[SPACE] >= 2
  /\ \E a \in Accounts : member_status(St, a) = "Left"

----------------------------------------------------------------------------
(* The plugin lists of a Space *)

\* The elements of a sequence
Elements(s) == {s[i] : i \in DOMAIN s}

\* C38: in every reachable state of a Space plugin_ids contains no kind
\* twice, every kind in plugin_ids has an address in plugins, and the
\* disabled list is a duplicate-free part of plugin_ids, for every sequence
\* of deploy_new_space, install_plugins, attach_plugins, enable_plugin and
\* disable_plugin calls, those that name a kind more than once included.
C38_PluginLists ==
  \A space_id \in Deployed :
    LET sp == GetSpace(St, space_id)
    IN /\ NoDuplicates(sp.plugin_ids)
       /\ Elements(sp.plugin_ids) \subseteq DOMAIN sp.plugins
       /\ NoDuplicates(sp.disabled_plugin_ids)
       /\ Elements(sp.disabled_plugin_ids) \subseteq Elements(sp.plugin_ids)

----------------------------------------------------------------------------
(* The owner of a Space *)

\* The member row of the owner of the deployed Space
OwnerRow(space_id) ==
  LET sp == GetSpace(St, space_id) IN sp.members[sp.owner]

\* C39: as long as the ownership of a Space is not transferred, its owner is
\* Active with next_renewal_at = None in every reachable state at every
\* time: the constructor grants the membership without expiry, leave refuses
\* the owner, and a grant refuses an Active account.
C39_OwnerActive ==
  /\ \A space_id \in Deployed :
       /\ IsSome(OwnerRow(space_id))
       /\ OwnerRow(space_id)[1].next_renewal_at = None
       /\ StatusIn(space_id, GetSpace(St, space_id).owner) = "Active"
  /\ leave(St, owner).err = "Custom"
  /\ \A caller \in Accounts :
       /\ \A ttl_ \in Ttls :
            LET r == grant_membership(St, caller, owner, ttl_)
            IN ~r.ok /\ (caller = owner => r.err = "MemberExisted")
       /\ \A value \in Values :
            /\ ~pay_to_join(St, caller, Some(owner), value).ok
            /\ ~register_membership(St, caller, Some(owner), value).ok

\* Two Spaces with different owners, a day after the deploys: the owner of
\* the second Space joined the first with a membership that has expired
C39_Witness ==
  /\ now > SECS_PER_DAY
  /\ \E space_id \in Deployed \ {SPACE} :
       LET other == GetSpace(St, space_id).owner
       IN /\ other # owner
          /\ member_status(St, other) = "Inactive"
          /\ StatusIn(space_id, other) = "Active"

----------------------------------------------------------------------------
(* A new request after a finished one *)

\* The last request of the account was cancelled or rejected: it is not
\* pending any more and was not approved, and registrant_to_request still
\* holds its id
Finished(a) ==
  /\ IsSome(registrant_to_request[a])
  /\ ~Contains(pending_requests, registrant_to_request[a][1])
  /\ requests[registrant_to_request[a][1]].approved # Some(TRUE)

\* register_membership succeeds for an account whose last request is
\* finished, and the new request has the next id
C40_RegisterState ==
  \A caller \in Accounts, a \in Accounts, value \in Values :
    LET r == register_membership(St, caller, Some(a), value)
        id == requests_nonce + 1
    IN (/\ Finished(a)
        /\ ~is_member(St, a)
        /\ config.registration = "RequestToJoin"
        /\ valid_payment(config, value)
        /\ balance[caller] >= value
        /\ Len(pending_requests) < MAX_PENDING_REQUESTS) =>
         /\ r.ok
         /\ \A earlier \in DOMAIN requests : id > earlier
         /\ r.st.requests_nonce = id
         /\ r.st.requests[id].who = a
         /\ r.st.requests[id].paid = value
         /\ r.st.requests[id].approved = None
         /\ r.st.pending_requests = Append(pending_requests, id)
         /\ r.st.registrant_to_request[a] = Some(id)
         /\ get_membership_request(r.st, a) = Some(<<id, r.st.requests[id]>>)

\* A request that a step adds has an id above every earlier one, and no
\* step takes a request away from the Mapping or moves registrant_to_request
\* back
C40_RegisterStep ==
  /\ \A id \in DOMAIN requests' :
       id \notin DOMAIN requests => \A earlier \in DOMAIN requests : id > earlier
  /\ DOMAIN requests \subseteq DOMAIN requests'
  /\ \A a \in Accounts :
       IsSome(registrant_to_request[a]) =>
         /\ IsSome(registrant_to_request'[a])
         /\ registrant_to_request'[a][1] >= registrant_to_request[a][1]

\* C40: a finished request does not block a new one: after the pending
\* request of an account was cancelled or rejected, register_membership for
\* that account (no member, RequestToJoin, sufficient payment, queue below
\* the cap) succeeds again although registrant_to_request still holds the id
\* of the finished request, and the new request has an id above every
\* earlier one.
C40_RegisterAgain == [](C40_RegisterState) /\ [][C40_RegisterStep]_vars

\* An account registered, its request was finished without approval, and it
\* registered again: its second request is the pending one
C40_Witness ==
  \E a \in Accounts :
    /\ Len(requests) = 2
    /\ requests[1].who = a /\ requests[2].who = a
    /\ requests[1].approved # Some(TRUE)
    /\ ~is_member(St, a)
    /\ pending_requests = <<2>>
    /\ registrant_to_request[a] = Some(2)
====
